---- MODULE Spec2Model ----
(***************************************************************************)
(* A model of the SoloCheck backend (solocheck-backend/src): the check-in  *)
(* engine, the emergency contacts and their consent, the SOS trigger /     *)
(* cancel / delayed dispatch, the notification fan-out and the scheduler   *)
(* tasks.  Time is counted in seconds since an arbitrary epoch.            *)
(***************************************************************************)
EXTENDS Integers, Sequences, FiniteSets, TLC

\* ------------------------------------------------------------------ bounds
NumUsers == 2
MaxTicks == 1
MaxSOS == 1
MaxCancel == 1
MaxCheckIns == 2
MaxLogs == 2
MaxTokens == 1
MaxQuick == 2
MaxRows == 2
MaxConsentTokens == 2
MaxCreates == 2
MaxJobs == 1
MaxDays == 1

\* --------------------------------------------------------- program constants
SOS_COUNTDOWN_SECONDS == 5
DEFAULT_CHECK_IN_CYCLE == 7
DEFAULT_GRACE_PERIOD == 48
DEFAULT_EXPIRES_HOURS == 1
MAX_CONTACTS == 3
CONSENT_TOKEN_VALIDITY_DAYS == 7
\* @shared_task(bind=True, max_retries=3, default_retry_delay=60)
max_retries == 3
default_retry_delay == 60

HOUR == 60 * 60
DAY == 24 * HOUR
\* a NULL column: below every clock value
NULL == 0 - 1

SOS_STATUS_TRIGGERED == "triggered"
SOS_STATUS_CANCELLED == "cancelled"
SOS_STATUS_SENT == "sent"
CONSENT_STATUS_PENDING == "pending"
CONSENT_STATUS_APPROVED == "approved"
CONSENT_STATUS_REJECTED == "rejected"
CONSENT_STATUS_EXPIRED == "expired"

VARIABLES
    now,                \* datetime.now(timezone.utc), in seconds
    ticks,              \* how many times the clock has advanced
    users,              \* table users: id -> row
    check_in_logs,      \* table check_in_logs, in insertion order
    contacts,           \* table emergency_contacts: id -> row
    notification_logs,  \* table notification_logs, in insertion order
    sos_events,         \* table sos_events, in insertion order (id = index)
    sos_jobs,           \* the send_sos_alerts_delayed job of each SOS event
    cancel_reqs,        \* the POST /sos/{id}/cancel requests, in arrival order
    session_tokens,     \* table check_in_session_tokens (token = index)
    quick_reqs,         \* the POST /checkin/quick requests, in arrival order
    issued,             \* how many contact ids and consent tokens were drawn
    contact_reqs,       \* the POST /contacts requests past the count check
    reminder_settings,  \* table reminder_settings: user_id -> row
    task_requests,      \* the Celery requests of the scheduler jobs started
    reply               \* what the most recent service call or task returned

clock == <<now, ticks>>
checkin == <<users, check_in_logs>>
sos == <<sos_events, sos_jobs, cancel_reqs>>
quick == <<session_tokens, quick_reqs>>
intake == <<issued, contact_reqs>>
upkeep == <<reminder_settings, task_requests>>
vars == <<now, ticks, users, check_in_logs, contacts, notification_logs,
          sos_events, sos_jobs, cancel_reqs, session_tokens, quick_reqs,
          issued, contact_reqs, reminder_settings, task_requests, reply>>

UserIds == 1..NumUsers
\* an id that no users row has
NoUser == NumUsers + 1
NoReply == [op |-> "none"]

\* ------------------------------------------------------------------ clock
\* The clock advances by d seconds.
Tick(d) ==
    /\ ticks < MaxTicks
    /\ now' = now + d
    /\ ticks' = ticks + 1
    /\ UNCHANGED <<checkin, contacts, notification_logs, sos, quick, reply, intake,
                   upkeep>>

\* --------------------------------------------------------------- contacts
RECURSIVE OrderByPriority(_, _)
\* ORDER BY priority of the contact ids S (ties, which the query leaves
\* open, by id)
OrderByPriority(tbl, S) ==
    IF S = {} THEN <<>>
    ELSE LET m == CHOOSE c \in S : \A d \in S :
                      \/ tbl[c].priority < tbl[d].priority
                      \/ tbl[c].priority = tbl[d].priority /\ c <= d
         IN <<m>> \o OrderByPriority(tbl, S \ {m})

\* get_active_contacts filtering on the status alone
IsActiveContact_Unverified(c, user_id) ==
    /\ c.user_id = user_id
    /\ c.status = CONSENT_STATUS_APPROVED

\* get_active_contacts filtering on is_verified alone
IsActiveContact_AnyStatus(c, user_id) ==
    /\ c.user_id = user_id
    /\ c.is_verified = TRUE

\* contacts/service.py get_active_contacts: the filter of the query
IsActiveContact(c, user_id) ==
    /\ c.user_id = user_id
    /\ c.status = CONSENT_STATUS_APPROVED
    /\ c.is_verified = TRUE

get_active_contacts(tbl, user_id) ==
    OrderByPriority(tbl, {c \in DOMAIN tbl : IsActiveContact(tbl[c], user_id)})

\* a call of get_active_contacts(db, user_id), as the fan-outs make it
call_get_active_contacts(user_id) ==
    /\ reply' = [op |-> "get_active_contacts", user_id |-> user_id,
                 result |-> get_active_contacts(contacts, user_id)]
    /\ UNCHANGED <<clock, checkin, contacts, notification_logs, sos, quick, intake,
                   upkeep>>

\* ---------------------------------------------------------------- consent
\* get_contact_by_id: the contact of that id if it belongs to the user
get_contact_by_id(tbl, user_id, contact_id) ==
    IF contact_id \in DOMAIN tbl /\ tbl[contact_id].user_id = user_id
    THEN contact_id
    ELSE NULL

\* request_consent leaving the status of the contact as it is
request_consent_keeping_status(user_id, contact_id) ==
    LET c == get_contact_by_id(contacts, user_id, contact_id)
        token == issued.consent_tokens + 1
    IN /\ IF c = NULL
          THEN /\ reply' = [op |-> "request_consent", result |-> NULL]
               /\ UNCHANGED <<contacts, issued, upkeep>>
          ELSE /\ issued.consent_tokens < MaxConsentTokens
               /\ issued' = [issued EXCEPT !.consent_tokens = token]
               /\ contacts' =
                     [contacts EXCEPT
                         ![c].consent_token = token,
                         ![c].consent_requested_at = now,
                         ![c].consent_expires_at =
                             now + CONSENT_TOKEN_VALIDITY_DAYS * DAY,
                         ![c].consent_responded_at = NULL]
               /\ reply' = [op |-> "request_consent", result |-> c]
       /\ UNCHANGED <<clock, checkin, notification_logs, sos, quick,
                      contact_reqs, upkeep>>

\* request_consent; secrets.token_urlsafe(48) gives a token no earlier call
\* gave, here the number of the draw
request_consent(user_id, contact_id) ==
    LET c == get_contact_by_id(contacts, user_id, contact_id)
        token == issued.consent_tokens + 1
    IN /\ IF c = NULL
          THEN /\ reply' = [op |-> "request_consent", result |-> NULL]
               /\ UNCHANGED <<contacts, issued, upkeep>>
          ELSE /\ issued.consent_tokens < MaxConsentTokens
               /\ issued' = [issued EXCEPT !.consent_tokens = token]
               /\ contacts' =
                     [contacts EXCEPT
                         ![c].consent_token = token,
                         ![c].consent_requested_at = now,
                         ![c].consent_expires_at =
                             now + CONSENT_TOKEN_VALIDITY_DAYS * DAY,
                         ![c].status = CONSENT_STATUS_PENDING,
                         ![c].consent_responded_at = NULL]
               /\ reply' = [op |-> "request_consent", result |-> c]
       /\ UNCHANGED <<clock, checkin, notification_logs, sos, quick,
                      contact_reqs, upkeep>>

\* get_contact_by_consent_token with the token usable up to and at its expiry
get_contact_by_consent_token_at_expiry(tbl, token, t) ==
    LET found == {c \in DOMAIN tbl :
                     /\ tbl[c].consent_token = token
                     /\ tbl[c].consent_expires_at >= t}
    IN IF found = {} THEN NULL ELSE CHOOSE c \in found : TRUE

\* get_contact_by_consent_token at time t
get_contact_by_consent_token(tbl, token, t) ==
    LET found == {c \in DOMAIN tbl :
                     /\ tbl[c].consent_token = token
                     /\ tbl[c].consent_expires_at > t}
    IN IF found = {} THEN NULL ELSE CHOOSE c \in found : TRUE

\* a call of get_contact_by_consent_token(db, token)
call_get_contact_by_consent_token(token) ==
    /\ reply' = [op |-> "get_contact_by_consent_token", token |-> token,
                 result |-> get_contact_by_consent_token(contacts, token, now)]
    /\ UNCHANGED <<clock, checkin, contacts, notification_logs, sos, quick,
                   intake, upkeep>>

\* what process_consent writes, with the token left on the row
ProcessConsentUpdate_KeepToken(row, approved) ==
    [row EXCEPT
        !.status = IF approved THEN CONSENT_STATUS_APPROVED
                   ELSE CONSENT_STATUS_REJECTED,
        !.consent_responded_at = now,
        !.is_verified = IF approved THEN TRUE ELSE @]

\* what process_consent writes, leaving is_verified as it is
ProcessConsentUpdate_StatusOnly(row, approved) ==
    [row EXCEPT
        !.status = IF approved THEN CONSENT_STATUS_APPROVED
                   ELSE CONSENT_STATUS_REJECTED,
        !.consent_responded_at = now,
        !.consent_token = NULL]

\* what process_consent writes to the contact its token resolved to
ProcessConsentUpdate(row, approved) ==
    [row EXCEPT
        !.status = IF approved THEN CONSENT_STATUS_APPROVED
                   ELSE CONSENT_STATUS_REJECTED,
        !.consent_responded_at = now,
        !.consent_token = NULL,
        !.is_verified = IF approved THEN TRUE ELSE @]

\* process_consent
process_consent(token, approved) ==
    LET c == get_contact_by_consent_token(contacts, token, now)
    IN /\ IF c = NULL
          THEN /\ reply' = [op |-> "process_consent", token |-> token,
                            approved |-> approved, result |-> NULL]
               /\ UNCHANGED contacts
          ELSE /\ contacts' =
                     [contacts EXCEPT
                         ![c] = ProcessConsentUpdate(contacts[c], approved)]
               /\ reply' = [op |-> "process_consent", token |-> token,
                            approved |-> approved, result |-> c]
       /\ UNCHANGED <<clock, checkin, notification_logs, sos, quick, intake, upkeep>>

\* the expiry test with the expiry instant itself counted as expired
ConsentHasExpired_AtExpiry(row, t) ==
    /\ row.status = CONSENT_STATUS_PENDING
    /\ row.consent_expires_at # NULL
    /\ row.consent_expires_at <= t

\* the test of get_consent_status and check_expired_consents: a pending
\* contact whose consent_expires_at is set and earlier than t
ConsentHasExpired(row, t) ==
    /\ row.status = CONSENT_STATUS_PENDING
    /\ row.consent_expires_at # NULL
    /\ row.consent_expires_at < t

\* get_consent_status
get_consent_status(user_id, contact_id) ==
    LET c == get_contact_by_id(contacts, user_id, contact_id)
    IN /\ IF c = NULL
          THEN /\ reply' = [op |-> "get_consent_status", result |-> NULL]
               /\ UNCHANGED contacts
          ELSE /\ contacts' =
                     IF ConsentHasExpired(contacts[c], now)
                     THEN [contacts EXCEPT
                              ![c].status = CONSENT_STATUS_EXPIRED]
                     ELSE contacts
               /\ reply' = [op |-> "get_consent_status", result |-> c,
                            status |-> contacts'[c].status]
       /\ UNCHANGED <<clock, checkin, notification_logs, sos, quick, intake, upkeep>>

\* check_expired_consents
check_expired_consents ==
    LET hit == {c \in DOMAIN contacts : ConsentHasExpired(contacts[c], now)}
    IN /\ contacts' = [c \in DOMAIN contacts |->
                          IF c \in hit
                          THEN [contacts[c] EXCEPT
                                   !.status = CONSENT_STATUS_EXPIRED]
                          ELSE contacts[c]]
       /\ reply' = [op |-> "check_expired_consents",
                    updated |-> Cardinality(hit)]
       /\ UNCHANGED <<clock, checkin, notification_logs, sos, quick, intake, upkeep>>

\* update_contact: the name (not modelled) and the priority are assigned
\* when the request gives them (priority NULL: not given)
update_contact(user_id, contact_id, priority) ==
    LET c == get_contact_by_id(contacts, user_id, contact_id)
    IN /\ IF c = NULL
          THEN /\ reply' = [op |-> "update_contact", result |-> NULL]
               /\ UNCHANGED contacts
          ELSE /\ contacts' =
                     IF priority # NULL
                     THEN [contacts EXCEPT ![c].priority = priority]
                     ELSE contacts
               /\ reply' = [op |-> "update_contact", result |-> c]
       /\ UNCHANGED <<clock, checkin, notification_logs, sos, quick, intake, upkeep>>

\* verify_contact: the contact of that id, whoever owns it, is marked verified
verify_contact(contact_id) ==
    /\ IF contact_id \notin DOMAIN contacts
       THEN /\ reply' = [op |-> "verify_contact", result |-> NULL]
            /\ UNCHANGED contacts
       ELSE /\ contacts' = [contacts EXCEPT ![contact_id].is_verified = TRUE]
            /\ reply' = [op |-> "verify_contact", result |-> contact_id]
    /\ UNCHANGED <<clock, checkin, notification_logs, sos, quick, intake, upkeep>>

\* ------------------------------------------------------ create and delete
\* the rows get_contacts and get_contact_count select for a user
ContactsOf(tbl, user_id) == {c \in DOMAIN tbl : tbl[c].user_id = user_id}

\* get_contacts: the user's contacts ordered by priority; the query leaves
\* the order of rows of equal priority open, so this is the set of the lists
\* it may return
get_contacts(tbl, user_id) ==
    LET S == ContactsOf(tbl, user_id)
        n == Cardinality(S)
    IN {ord \in [1..n -> S] :
           \A i, j \in 1..n :
               i < j => /\ ord[i] # ord[j]
                        /\ tbl[ord[i]].priority <= tbl[ord[j]].priority}

\* get_contact_count
get_contact_count(tbl, user_id) == Cardinality(ContactsOf(tbl, user_id))

\* the row create_contact inserts
create_contact(user_id, priority) ==
    [user_id |-> user_id, contact_type |-> "email", priority |-> priority,
     is_verified |-> FALSE, status |-> CONSENT_STATUS_PENDING,
     consent_token |-> NULL, consent_requested_at |-> NULL,
     consent_responded_at |-> NULL, consent_expires_at |-> NULL]

\* The contacts stored before the create and delete scenarios begin: user 1
\* has created two, of priority 1 and 2.
StoredContacts == <<create_contact(1, 1), create_contact(1, 2)>>

\* POST /contacts up to the call of create_contact: the count check of
\* create_new_contact.  The contact value is one the user has not stored yet
\* and is well-formed, so the duplicate and format checks pass.
create_new_contact_check(user_id, priority) ==
    /\ IF get_contact_count(contacts, user_id) >= MAX_CONTACTS
       THEN /\ reply' = [op |-> "create_new_contact", user_id |-> user_id,
                         http |-> 400, code |-> "CONTACT001"]
            /\ UNCHANGED contact_reqs
       ELSE /\ issued.contact_ids + Len(contact_reqs)
                  < Len(StoredContacts) + MaxCreates
            /\ contact_reqs' = Append(contact_reqs,
                                      [user_id |-> user_id,
                                       priority |-> priority])
            /\ UNCHANGED reply
    /\ UNCHANGED <<clock, checkin, contacts, notification_logs, sos, quick,
                   issued, upkeep>>

\* POST /contacts from the call of create_contact on: the insert, its commit
\* and the 201 answer, for the i-th request that passed the count check
create_new_contact_insert(i) ==
    /\ i \in DOMAIN contact_reqs
    /\ LET r == contact_reqs[i]
           id == issued.contact_ids + 1
       IN /\ contacts' = [c \in DOMAIN contacts \cup {id} |->
                             IF c = id
                             THEN create_contact(r.user_id, r.priority)
                             ELSE contacts[c]]
          /\ issued' = [issued EXCEPT !.contact_ids = id]
          /\ contact_reqs' = [j \in 1..(Len(contact_reqs) - 1) |->
                                 IF j < i THEN contact_reqs[j]
                                 ELSE contact_reqs[j + 1]]
          /\ reply' = [op |-> "create_new_contact", user_id |-> r.user_id,
                       http |-> 201, contact_id |-> id]
    /\ UNCHANGED <<clock, checkin, notification_logs, sos, quick, upkeep>>

\* delete_existing_contact without the renumbering
reorder_priorities_skipped(tbl, user_id, ord) == tbl

\* reorder_priorities, given the list ord that get_contacts returned
reorder_priorities(tbl, user_id, ord) ==
    [c \in DOMAIN tbl |->
        IF tbl[c].user_id = user_id
        THEN [tbl[c] EXCEPT
                 !.priority = CHOOSE idx \in DOMAIN ord : ord[idx] = c]
        ELSE tbl[c]]

\* delete_contact: the table without the row
delete_contact(tbl, contact_id) ==
    [c \in DOMAIN tbl \ {contact_id} |-> tbl[c]]

\* DELETE /contacts/{contact_id}: delete_contact, then reorder_priorities
delete_existing_contact(user_id, contact_id) ==
    /\ IF get_contact_by_id(contacts, user_id, contact_id) = NULL
       THEN /\ reply' = [op |-> "delete_existing_contact",
                         user_id |-> user_id, http |-> 404]
            /\ UNCHANGED contacts
       ELSE LET left == delete_contact(contacts, contact_id)
            IN /\ \E ord \in get_contacts(left, user_id) :
                     contacts' = reorder_priorities(left, user_id, ord)
               /\ reply' = [op |-> "delete_existing_contact",
                            user_id |-> user_id, http |-> 204]
    /\ UNCHANGED <<clock, checkin, notification_logs, sos, quick, intake, upkeep>>

\* ------------------------------------------------------------ quiet hours
\* datetime.time(h, m), as seconds since midnight
time(h, m) == h * HOUR + m * 60

\* is_in_quiet_hours with both ends of the range left out
is_in_quiet_hours_exclusive(settings, current_time) ==
    LET start == settings.quiet_hours_start
        end == settings.quiet_hours_end
        t == IF current_time = NULL THEN now % DAY ELSE current_time
    IN IF start = NULL \/ end = NULL
       THEN FALSE
       ELSE IF start <= end
            THEN start < t /\ t < end
            ELSE t > start \/ t < end

\* is_in_quiet_hours; current_time None stands for the time of day of now
is_in_quiet_hours(settings, current_time) ==
    LET start == settings.quiet_hours_start
        end == settings.quiet_hours_end
        t == IF current_time = NULL THEN now % DAY ELSE current_time
    IN IF start = NULL \/ end = NULL
       THEN FALSE
       ELSE IF start <= end
            THEN start <= t /\ t <= end
            ELSE t >= start \/ t <= end

\* a call of is_in_quiet_hours(settings, current_time)
call_is_in_quiet_hours(settings, current_time) ==
    /\ reply' = [op |-> "is_in_quiet_hours",
                 start |-> settings.quiet_hours_start,
                 end |-> settings.quiet_hours_end,
                 current_time |-> IF current_time = NULL THEN now % DAY
                                  ELSE current_time,
                 result |-> is_in_quiet_hours(settings, current_time)]
    /\ UNCHANGED <<clock, checkin, contacts, notification_logs, sos, quick,
                   intake, upkeep>>

\* ------------------------------------------------------ reminder settings
\* custom_message None: a one-element list holding NULL, which no string is
\* (a string is the list of its characters)
NoMessage == <<NULL>>

\* the row get_reminder_settings creates for a user who has none
DefaultReminderSettings ==
    [reminder_hours_before |-> <<48, 24, 12>>,
     quiet_hours_start |-> NULL, quiet_hours_end |-> NULL,
     preferred_time |-> NULL, push_enabled |-> TRUE,
     email_enabled |-> FALSE, custom_message |-> NoMessage]

\* get_reminder_settings, the table after it: the user's row is created
\* with the defaults when it is missing
get_reminder_settings(tbl, user_id) ==
    IF user_id \in DOMAIN tbl
    THEN tbl
    ELSE [u \in DOMAIN tbl \cup {user_id} |->
             IF u = user_id THEN DefaultReminderSettings ELSE tbl[u]]

\* [h for h in data.reminder_hours_before if 1 <= h <= 168]
valid_hours(hours) == SelectSeq(hours, LAMBDA h : 1 <= h /\ h <= 168)

RECURSIVE InsertDescending(_, _)
\* h put into the descending list seq
InsertDescending(seq, h) ==
    IF seq = <<>> THEN <<h>>
    ELSE IF h >= Head(seq) THEN <<h>> \o seq
    ELSE <<Head(seq)>> \o InsertDescending(Tail(seq), h)

RECURSIVE sorted_reverse(_)
\* sorted(hours, reverse=True)
sorted_reverse(hours) ==
    IF hours = <<>> THEN <<>>
    ELSE InsertDescending(sorted_reverse(Tail(hours)), Head(hours))

\* data.custom_message[:100] if data.custom_message else None
truncate_message(msg) ==
    IF msg = <<>> THEN NoMessage
    ELSE SubSeq(msg, 1, IF Len(msg) < 100 THEN Len(msg) ELSE 100)

\* how many entries of seq are v
Count(seq, v) == Cardinality({i \in DOMAIN seq : seq[i] = v})

\* stored holds exactly the entries of given that lie in [1,168], each as
\* often as given holds it, in descending order
IsSurvivorsDescending(stored, given) ==
    /\ \A i \in 1..(Len(stored) - 1) : stored[i] >= stored[i + 1]
    /\ \A v \in {given[i] : i \in DOMAIN given}
                  \cup {stored[i] : i \in DOMAIN stored} :
          Count(stored, v) = IF 1 <= v /\ v <= 168 THEN Count(given, v) ELSE 0

\* the settings of the user before a call: the stored row, or the defaults
\* the call creates
SettingsBefore(user_id) ==
    IF user_id \in DOMAIN reminder_settings
    THEN reminder_settings[user_id]
    ELSE DefaultReminderSettings

\* update_reminder_settings overwriting every field of the row, the ones the
\* request leaves out with the defaults
UpdatedSettings_Replace(row, data) ==
    [f \in DOMAIN row |->
        IF f \notin DOMAIN data THEN DefaultReminderSettings[f]
        ELSE IF f = "reminder_hours_before"
        THEN IF valid_hours(data[f]) # <<>>
             THEN sorted_reverse(valid_hours(data[f]))
             ELSE row[f]
        ELSE IF f = "custom_message" THEN truncate_message(data[f])
        ELSE data[f]]

\* update_reminder_settings, the row after it; the fields the request gives
\* (those that are not None) are the domain of data
UpdatedSettings(row, data) ==
    [f \in DOMAIN row |->
        IF f \notin DOMAIN data THEN row[f]
        ELSE IF f = "reminder_hours_before"
        THEN IF valid_hours(data[f]) # <<>>
             THEN sorted_reverse(valid_hours(data[f]))
             ELSE row[f]
        ELSE IF f = "custom_message" THEN truncate_message(data[f])
        ELSE data[f]]

\* update_reminder_settings
update_reminder_settings(user_id, data) ==
    /\ LET tbl == get_reminder_settings(reminder_settings, user_id)
       IN reminder_settings' =
              [tbl EXCEPT ![user_id] = UpdatedSettings(tbl[user_id], data)]
    /\ reply' = [op |-> "update_reminder_settings", user_id |-> user_id,
                 data |-> data]
    /\ UNCHANGED <<clock, checkin, contacts, notification_logs, sos, quick,
                   intake, task_requests>>

\* the threshold test with a tolerance of 3 hours before and none after
WithinTolerance_BeforeOnly(hours_until_deadline, threshold) ==
    /\ hours_until_deadline - threshold <= 3
    /\ hours_until_deadline - threshold >= 0

\* abs(hours_until_deadline - threshold) <= 3
WithinTolerance(hours_until_deadline, threshold) ==
    /\ hours_until_deadline - threshold <= 3
    /\ threshold - hours_until_deadline <= 3

\* should_send_reminder, what it returns for the settings row: (should_send,
\* custom_message)
should_send_reminder(row, hours_until_deadline) ==
    IF ~row.push_enabled THEN <<FALSE, NoMessage>>
    ELSE IF is_in_quiet_hours(row, NULL) THEN <<FALSE, NoMessage>>
    ELSE IF \E i \in DOMAIN row.reminder_hours_before :
               WithinTolerance(hours_until_deadline,
                               row.reminder_hours_before[i])
    THEN <<TRUE, row.custom_message>>
    ELSE <<FALSE, NoMessage>>

\* a call of should_send_reminder(db, user, hours_until_deadline)
call_should_send_reminder(user_id, hours_until_deadline) ==
    /\ reminder_settings' = get_reminder_settings(reminder_settings, user_id)
    /\ reply' = [op |-> "should_send_reminder", user_id |-> user_id,
                 hours_until_deadline |-> hours_until_deadline,
                 result |-> should_send_reminder(reminder_settings'[user_id],
                                                 hours_until_deadline)]
    /\ UNCHANGED <<clock, checkin, contacts, notification_logs, sos, quick,
                   intake, task_requests>>

\* ---------------------------------------------------------- notifications
\* notifications/service.py log_notification: the row it inserts
log_notification(user_id, contact_id, notification_type, status) ==
    [user_id |-> user_id, contact_id |-> contact_id,
     type |-> notification_type, status |-> status,
     sent_at |-> IF status = "sent" THEN now ELSE NULL,
     has_error |-> status # "sent"]

\* The rows one fan-out of `type` to the contacts cs (in order) writes:
\* send_status_alert, send_personal_message_alert and send_sos_alert_email
\* return without sending or logging for a contact that is not an email
\* contact, and otherwise log "sent" or "failed" by what send_email returned
\* (ok: the contacts for which the provider accepts the mail).
EmailOnly(tbl, cs) == SelectSeq(cs, LAMBDA c : tbl[c].contact_type = "email")

AlertRows(tbl, user_id, cs, type, ok) ==
    LET es == EmailOnly(tbl, cs)
    IN [i \in 1..Len(es) |->
           log_notification(user_id, es[i], type,
                            IF es[i] \in ok THEN "sent" ELSE "failed")]

\* -------------------------------------------------------------------- SOS
\* the trigger that inserts the event without scheduling its job
trigger_sos_without_job(user_id) ==
    /\ Len(sos_events) < MaxSOS
    /\ user_id \in DOMAIN users
    /\ users[user_id].is_active
    /\ sos_events' = Append(sos_events,
          [user_id |-> user_id, triggered_at |-> now, cancelled_at |-> NULL,
           sent_at |-> NULL, status |-> SOS_STATUS_TRIGGERED])
    /\ UNCHANGED <<clock, checkin, contacts, notification_logs, sos_jobs,
                   cancel_reqs, quick, reply, intake, upkeep>>

\* sos/service.py trigger_sos and sos/router.py trigger_sos_alert: the event
\* is inserted and its delayed job scheduled with countdown
\* SOS_COUNTDOWN_SECONDS.  The router admits only an active user.
trigger_sos(user_id) ==
    /\ Len(sos_events) < MaxSOS
    /\ user_id \in DOMAIN users
    /\ users[user_id].is_active
    /\ sos_events' = Append(sos_events,
          [user_id |-> user_id, triggered_at |-> now, cancelled_at |-> NULL,
           sent_at |-> NULL, status |-> SOS_STATUS_TRIGGERED])
    /\ sos_jobs' = Append(sos_jobs,
          [pc |-> "scheduled", eta |-> now + SOS_COUNTDOWN_SECONDS,
           result |-> "none", alerts_sent |-> 0, attempted |-> {}])
    /\ UNCHANGED <<clock, checkin, contacts, notification_logs, cancel_reqs, quick,
                   reply, intake, upkeep>>

\* the query of cancel_sos without the owner filter
cancel_sos_query_any_user(user_id, sos_id) ==
    /\ sos_id \in 1..Len(sos_events)
    /\ sos_events[sos_id].status = SOS_STATUS_TRIGGERED

\* sos/service.py cancel_sos, the query: the event with this id, of this
\* user, with status triggered (.first()); None ends the request with 404.
cancel_sos_query(user_id, sos_id) ==
    /\ sos_id \in 1..Len(sos_events)
    /\ sos_events[sos_id].user_id = user_id
    /\ sos_events[sos_id].status = SOS_STATUS_TRIGGERED

cancel_sos_read(user_id, sos_id) ==
    /\ Len(cancel_reqs) < MaxCancel
    /\ user_id \in DOMAIN users
    /\ users[user_id].is_active
    /\ cancel_reqs' = Append(cancel_reqs,
          IF cancel_sos_query(user_id, sos_id)
          THEN [user_id |-> user_id, sos_id |-> sos_id, pc |-> "write",
                result |-> "none"]
          ELSE [user_id |-> user_id, sos_id |-> sos_id, pc |-> "done",
                result |-> "not_found"])
    /\ UNCHANGED <<clock, checkin, contacts, notification_logs, sos_events,
                   sos_jobs, quick, reply, intake, upkeep>>

\* sos/service.py cancel_sos, the update: the row found by the query is set
\* to cancelled and committed (UPDATE ... WHERE id = :id), and returned.
cancel_sos_write(r) ==
    /\ r \in 1..Len(cancel_reqs)
    /\ cancel_reqs[r].pc = "write"
    /\ LET e == cancel_reqs[r].sos_id
       IN sos_events' = [sos_events EXCEPT
              ![e].status = SOS_STATUS_CANCELLED,
              ![e].cancelled_at = now]
    /\ cancel_reqs' = [cancel_reqs EXCEPT ![r].pc = "done",
                                          ![r].result = "cancelled"]
    /\ UNCHANGED <<clock, checkin, contacts, notification_logs, sos_jobs, quick,
                   reply, intake, upkeep>>

\* sos/service.py is_sos_still_active
is_sos_still_active(sos_id) ==
    /\ sos_id \in 1..Len(sos_events)
    /\ sos_events[sos_id].status = SOS_STATUS_TRIGGERED

\* apply_async(countdown=SOS_COUNTDOWN_SECONDS): the queue holds the job
\* back until its eta; time passes up to it
sos_job_wait(e) ==
    /\ e \in 1..Len(sos_jobs)
    /\ sos_jobs[e].pc = "scheduled"
    /\ now < sos_jobs[e].eta
    /\ now' = sos_jobs[e].eta
    /\ UNCHANGED <<ticks, checkin, contacts, notification_logs, sos, quick,
                   reply, intake, upkeep>>

\* scheduler/tasks.py send_sos_alerts_delayed, first step: once the countdown
\* has elapsed the job checks that the event is still active, and returns
\* status "cancelled" with no alert when it is not.
sos_job_check(e) ==
    /\ e \in 1..Len(sos_jobs)
    /\ sos_jobs[e].pc = "scheduled"
    /\ now >= sos_jobs[e].eta
    /\ sos_jobs' = [sos_jobs EXCEPT ![e] =
          IF is_sos_still_active(e)
          THEN [@ EXCEPT !.pc = "active"]
          ELSE [@ EXCEPT !.pc = "done", !.result = "cancelled"]]
    /\ UNCHANGED <<clock, checkin, contacts, notification_logs, sos_events,
                   cancel_reqs, quick, reply, intake, upkeep>>

\* scheduler/tasks.py send_sos_alerts_delayed, the fan-out: the event's user,
\* that user's active contacts, one SOS mail per email contact, each logged.
sos_job_fanout(e) ==
    /\ e \in 1..Len(sos_jobs)
    /\ sos_jobs[e].pc = "active"
    /\ LET u == sos_events[e].user_id
           cs == get_active_contacts(contacts, u)
       IN \E ok \in SUBSET {c \in DOMAIN contacts :
                              /\ contacts[c].contact_type = "email"
                              /\ IsActiveContact(contacts[c], u)} :
            LET rows == AlertRows(contacts, u, cs, "sos_alert", ok)
            IN /\ notification_logs' = notification_logs \o rows
               /\ sos_jobs' = [sos_jobs EXCEPT
                     ![e].pc = "fanned",
                     ![e].alerts_sent =
                         Cardinality({i \in 1..Len(rows) :
                                         rows[i].status = "sent"}),
                     ![e].attempted =
                         {rows[i].contact_id : i \in 1..Len(rows)}]
    /\ UNCHANGED <<clock, checkin, contacts, sos_events, cancel_reqs, quick,
                   reply, intake, upkeep>>

\* sos/service.py mark_sos_sent: the event with this id is set to sent.
mark_sos_sent(sos_id) ==
    sos_events' = [sos_events EXCEPT
        ![sos_id].status = SOS_STATUS_SENT,
        ![sos_id].sent_at = now]

\* scheduler/tasks.py send_sos_alerts_delayed, last step: mark_sos_sent and
\* the result with status "sent".
sos_job_mark(e) ==
    /\ e \in 1..Len(sos_jobs)
    /\ sos_jobs[e].pc = "fanned"
    /\ mark_sos_sent(e)
    /\ sos_jobs' = [sos_jobs EXCEPT ![e].pc = "done", ![e].result = "sent"]
    /\ UNCHANGED <<clock, checkin, contacts, notification_logs, cancel_reqs, quick,
                   reply, intake, upkeep>>

\* --------------------------------------------------------------- check-in
\* checkin/service.py calculate_next_check_in_due
calculate_next_check_in_due(last_check_in, cycle_days) ==
    IF last_check_in = NULL THEN NULL ELSE last_check_in + cycle_days * DAY

\* the remaining time with all of the hours left in the second component
calculate_remaining_time_total_hours(next_due) ==
    IF next_due = NULL THEN <<NULL, NULL>>
    ELSE IF next_due - now <= 0 THEN <<0, 0>>
    ELSE <<(next_due - now) \div DAY, (next_due - now) \div HOUR>>

\* checkin/service.py calculate_remaining_time: <<days, hours>> of
\* next_due - now (timedelta.days and timedelta.seconds // 3600)
calculate_remaining_time(next_due) ==
    IF next_due = NULL THEN <<NULL, NULL>>
    ELSE IF next_due - now <= 0 THEN <<0, 0>>
    ELSE <<(next_due - now) \div DAY, ((next_due - now) % DAY) \div HOUR>>

\* is_check_in_overdue admitting the deadline instant itself
is_check_in_overdue_at_deadline(last_check_in, cycle_days, grace_hours) ==
    IF last_check_in = NULL THEN FALSE
    ELSE now >= last_check_in + cycle_days * DAY + grace_hours * HOUR

\* checkin/service.py is_check_in_overdue
is_check_in_overdue(last_check_in, cycle_days, grace_hours) ==
    IF last_check_in = NULL THEN FALSE
    ELSE now > last_check_in + cycle_days * DAY + grace_hours * HOUR

\* checkin/service.py get_status, behind the router's active-user check
get_status(user_id) ==
    /\ user_id \in DOMAIN users
    /\ users[user_id].is_active
    /\ LET u == users[user_id]
           next_due == calculate_next_check_in_due(u.last_check_in,
                                                   u.check_in_cycle)
           rem == calculate_remaining_time(next_due)
       IN reply' = [op |-> "get_status", user_id |-> user_id,
                    last_check_in |-> u.last_check_in,
                    next_check_in_due |-> next_due,
                    days_remaining |-> rem[1], hours_remaining |-> rem[2],
                    is_overdue |-> is_check_in_overdue(u.last_check_in,
                                      u.check_in_cycle, u.grace_period),
                    check_in_cycle |-> u.check_in_cycle,
                    grace_period |-> u.grace_period]
    /\ UNCHANGED <<clock, checkin, contacts, notification_logs, sos, quick, intake,
                   upkeep>>

\* update_settings restarting the cycle from the moment of the change
update_settings_restarting_cycle(user_id, check_in_cycle, grace_period) ==
    /\ user_id \in DOMAIN users
    /\ users[user_id].is_active
    /\ users' = [users EXCEPT ![user_id].check_in_cycle = check_in_cycle,
                              ![user_id].grace_period = grace_period,
                              ![user_id].last_check_in = now]
    /\ reply' = [op |-> "update_settings", user_id |-> user_id]
    /\ UNCHANGED <<clock, check_in_logs, contacts, notification_logs, sos, quick,
                     intake, upkeep>>

\* checkin/service.py update_settings (the request schema admits a cycle of
\* 7..30 days and a grace period of 24..72 hours)
update_settings(user_id, check_in_cycle, grace_period) ==
    /\ user_id \in DOMAIN users
    /\ users[user_id].is_active
    /\ users' = [users EXCEPT ![user_id].check_in_cycle = check_in_cycle,
                              ![user_id].grace_period = grace_period]
    /\ reply' = [op |-> "update_settings", user_id |-> user_id]
    /\ UNCHANGED <<clock, check_in_logs, contacts, notification_logs, sos, quick,
                     intake, upkeep>>

\* create_check_in returning the deadline from the last_check_in it read
\* before the write
create_check_in_stale_due(user_id, method) ==
    IF user_id \notin DOMAIN users
    THEN /\ reply' = [op |-> "create_check_in", user_id |-> user_id,
                      method |-> method, found |-> FALSE]
         /\ UNCHANGED checkin
    ELSE /\ check_in_logs' = Append(check_in_logs,
                [user_id |-> user_id, checked_at |-> now, method |-> method])
         /\ users' = [users EXCEPT ![user_id].last_check_in = now]
         /\ reply' = [op |-> "create_check_in", user_id |-> user_id,
                      method |-> method, found |-> TRUE,
                      log_id |-> Len(check_in_logs) + 1,
                      checked_at |-> now,
                      next_check_in_due |-> calculate_next_check_in_due(
                          users[user_id].last_check_in,
                          users[user_id].check_in_cycle)]

\* create_check_in committing the log row without the last_check_in update
create_check_in_log_only(user_id, method) ==
    IF user_id \notin DOMAIN users
    THEN /\ reply' = [op |-> "create_check_in", user_id |-> user_id,
                      method |-> method, found |-> FALSE]
         /\ UNCHANGED checkin
    ELSE /\ check_in_logs' = Append(check_in_logs,
                [user_id |-> user_id, checked_at |-> now, method |-> method])
         /\ users' = users
         /\ reply' = [op |-> "create_check_in", user_id |-> user_id,
                      method |-> method, found |-> TRUE,
                      log_id |-> Len(check_in_logs) + 1,
                      checked_at |-> now,
                      next_check_in_due |-> calculate_next_check_in_due(
                          now, users[user_id].check_in_cycle)]

\* checkin/service.py create_check_in, what it commits and returns: for a
\* missing user None and nothing else; otherwise one transaction that
\* inserts the log row and updates users.last_check_in, and the deadline
\* computed from the refreshed user's cycle.
create_check_in(user_id, method) ==
    IF user_id \notin DOMAIN users
    THEN /\ reply' = [op |-> "create_check_in", user_id |-> user_id,
                      method |-> method, found |-> FALSE]
         /\ UNCHANGED checkin
    ELSE /\ check_in_logs' = Append(check_in_logs,
                [user_id |-> user_id, checked_at |-> now, method |-> method])
         /\ users' = [users EXCEPT ![user_id].last_check_in = now]
         /\ reply' = [op |-> "create_check_in", user_id |-> user_id,
                      method |-> method, found |-> TRUE,
                      log_id |-> Len(check_in_logs) + 1,
                      checked_at |-> now,
                      next_check_in_due |-> calculate_next_check_in_due(
                          now, users[user_id].check_in_cycle)]

\* a direct call of the service function (scheduler, tests, quick check-in)
call_create_check_in(user_id, method) ==
    /\ Len(check_in_logs) < MaxCheckIns
    /\ create_check_in(user_id, method)
    /\ UNCHANGED <<clock, contacts, notification_logs, sos, quick, intake, upkeep>>

\* POST /checkin depending on the authenticated user only, active or not
perform_checkin_any_account(user_id, method) ==
    /\ Len(check_in_logs) < MaxCheckIns
    /\ user_id \in DOMAIN users
    /\ create_check_in(user_id, method)
    /\ UNCHANGED <<clock, contacts, notification_logs, sos, quick, intake, upkeep>>

\* checkin/router.py perform_checkin: POST /checkin of an authenticated user;
\* get_current_active_user rejects an inactive account with 403 before the
\* service is called.
perform_checkin(user_id, method) ==
    /\ Len(check_in_logs) < MaxCheckIns
    /\ user_id \in DOMAIN users
    /\ IF users[user_id].is_active
       THEN create_check_in(user_id, method)
       ELSE /\ reply' = [op |-> "perform_checkin", user_id |-> user_id,
                         http |-> 403]
            /\ UNCHANGED checkin
    /\ UNCHANGED <<clock, contacts, notification_logs, sos, quick, intake, upkeep>>

\* users/service.py delete_user: the soft delete
delete_user(user_id) ==
    /\ user_id \in DOMAIN users
    /\ users[user_id].is_active
    /\ users' = [users EXCEPT ![user_id].is_active = FALSE]
    /\ reply' = [op |-> "delete_user", user_id |-> user_id]
    /\ UNCHANGED <<clock, check_in_logs, contacts, notification_logs, sos, quick,
                     intake, upkeep>>

\* ---------------------------------------------------- quick check-in tokens
\* generate_session_token, verify_and_consume_session_token and
\* create_quick_check_in_with_token are imported from checkin/service.py by
\* the scheduler and the tests but are not in the repository's copy of that
\* file; they are modelled from section 4.3 of the specification (issue,
\* consume, quickCheckIn) over the table of checkin/models.py.

\* issue: None for a missing user; otherwise a row with a fresh token string
\* (its index), expires_at = now + expires_hours, used_at null.
generate_session_token(user_id, expires_hours) ==
    /\ Len(session_tokens) < MaxTokens
    /\ IF user_id \notin DOMAIN users
       THEN /\ reply' = [op |-> "generate_session_token", user_id |-> user_id,
                         token |-> NULL, expires_hours |-> expires_hours]
            /\ UNCHANGED session_tokens
       ELSE /\ session_tokens' = Append(session_tokens,
                  [user_id |-> user_id,
                   expires_at |-> now + expires_hours * HOUR,
                   used_at |-> NULL])
            /\ reply' = [op |-> "generate_session_token", user_id |-> user_id,
                         token |-> Len(session_tokens) + 1,
                         expires_hours |-> expires_hours]
    /\ UNCHANGED <<clock, checkin, contacts, notification_logs, sos,
                   quick_reqs, intake, upkeep>>

\* consume accepting a token whatever its used_at
TokenIsValid_IgnoringUse(t) ==
    /\ t \in 1..Len(session_tokens)
    /\ session_tokens[t].expires_at > now

\* consume accepting a token at the instant it expires
TokenIsValid_AtExpiry(t) ==
    /\ t \in 1..Len(session_tokens)
    /\ session_tokens[t].used_at = NULL
    /\ session_tokens[t].expires_at >= now

\* consume, the row it looks for: this token string, used_at IS NULL and
\* expires_at > now
TokenIsValid(t) ==
    /\ t \in 1..Len(session_tokens)
    /\ session_tokens[t].used_at = NULL
    /\ session_tokens[t].expires_at > now

\* consume answering without marking the row
ConsumeUpdate_NoMark(t) == session_tokens

\* consume, the table after it: the row found gets used_at = now, in the
\* same atomic statement that found it
ConsumeUpdate(t) ==
    IF TokenIsValid(t)
    THEN [session_tokens EXCEPT ![t].used_at = now]
    ELSE session_tokens

\* consume returning the owner of any known token
ConsumeResult_AnyKnown(t) ==
    IF t \in 1..Len(session_tokens) THEN session_tokens[t].user_id ELSE NULL

\* consume, what it returns: the owning user, or null
ConsumeResult(t) ==
    IF TokenIsValid(t) THEN session_tokens[t].user_id ELSE NULL

\* POST /checkin/quick, first half (quickCheckIn's consume): the request
\* presents the token string t.
verify_and_consume_session_token(t) ==
    /\ Len(quick_reqs) < MaxQuick
    /\ session_tokens' = ConsumeUpdate(t)
    /\ quick_reqs' = Append(quick_reqs,
          [token |-> t, at |-> now, user |-> ConsumeResult(t),
           pc |-> IF ConsumeResult(t) = NULL THEN "done" ELSE "record",
           log_id |-> NULL, http |-> 200, success |-> FALSE])
    /\ UNCHANGED <<clock, checkin, contacts, notification_logs, sos, reply, intake,
                   upkeep>>

\* the quick check-in recorded as a button click
create_quick_check_in_as_button_click(r) ==
    /\ r \in 1..Len(quick_reqs)
    /\ quick_reqs[r].pc = "record"
    /\ create_check_in(quick_reqs[r].user, "button_click")
    /\ quick_reqs' = [quick_reqs EXCEPT
          ![r].pc = "done", ![r].log_id = Len(check_in_logs) + 1,
          ![r].success = TRUE]
    /\ UNCHANGED <<clock, contacts, notification_logs, sos, session_tokens, intake,
                   upkeep>>

\* POST /checkin/quick, second half (quickCheckIn's recordCheckIn): the
\* check-in of the user the token gave, with method push_response.
create_quick_check_in_with_token(r) ==
    /\ r \in 1..Len(quick_reqs)
    /\ quick_reqs[r].pc = "record"
    /\ create_check_in(quick_reqs[r].user, "push_response")
    /\ quick_reqs' = [quick_reqs EXCEPT
          ![r].pc = "done", ![r].log_id = Len(check_in_logs) + 1,
          ![r].success = TRUE]
    /\ UNCHANGED <<clock, contacts, notification_logs, sos, session_tokens, intake,
                   upkeep>>

\* ------------------------------------------------------------ token cleanup
\* the slot of a session token row that has been deleted; tokens stay
\* addressed by their position
DeletedToken == [user_id |-> NULL, expires_at |-> NULL, used_at |-> NULL]

\* cleanup deleting a token at the instant it expires
IsStaleToken_AtExpiry(row) ==
    \/ row.expires_at <= now
    \/ row.used_at # NULL /\ row.used_at < now - 24 * HOUR

\* cleanup_expired_tokens, the rows it deletes: expires_at < now, or used
\* more than 24 hours ago
IsStaleToken(row) ==
    \/ row.expires_at < now
    \/ row.used_at # NULL /\ row.used_at < now - 24 * HOUR

\* cleanup_expired_tokens, the table after it
cleanup_expired_tokens(tbl) ==
    [t \in DOMAIN tbl |->
        IF tbl[t] # DeletedToken /\ IsStaleToken(tbl[t])
        THEN DeletedToken ELSE tbl[t]]

\* scheduler/tasks.py cleanup_expired_session_tokens: one run of the task
cleanup_expired_session_tokens ==
    /\ session_tokens' = cleanup_expired_tokens(session_tokens)
    /\ reply' = [op |-> "cleanup_expired_session_tokens",
                 tokens_deleted |->
                     Cardinality({t \in DOMAIN session_tokens :
                                     session_tokens'[t] # session_tokens[t]}),
                 timestamp |-> now]
    /\ UNCHANGED <<clock, checkin, contacts, notification_logs, sos,
                   quick_reqs, intake, upkeep>>

\* -------------------------------------------------------------- scheduler
\* scheduler/tasks.py check_missed_checkins, the query: the active users
\* with a last_check_in
SweepUsers ==
    {u \in DOMAIN users : users[u].is_active /\ users[u].last_check_in # NULL}

\* the deadline without the grace period
MissedDeadline_CycleOnly(u) ==
    users[u].last_check_in + users[u].check_in_cycle * DAY

\* the deadline of a user: last_check_in + cycle days + grace period hours
MissedDeadline(u) ==
    users[u].last_check_in + users[u].check_in_cycle * DAY
        + users[u].grace_period * HOUR

\* the deadline test admitting the deadline instant itself
HasMissed_AtDeadline(u) == now >= MissedDeadline(u)

\* "if now > deadline"
HasMissed(u) == now > MissedDeadline(u)

\* user.personal_message and .is_enabled and .content
HasPersonalMessage(u) == users[u].personal_message = "enabled"

\* The email contacts among the active contacts of the users `us`: the
\* contacts a fan-out for these users mails.
MailTargets(us) ==
    {c \in DOMAIN contacts :
        /\ contacts[c].contact_type = "email"
        /\ \E u \in us : IsActiveContact(contacts[c], u)}

RECURSIVE FanOutRows_AllTypes(_, _, _)
\* the loop logging a status alert for every contact, whatever its type
FanOutRows_AllTypes(u, cs, ok) ==
    IF cs = <<>> THEN <<>>
    ELSE LET c == Head(cs)
             email == contacts[c].contact_type = "email"
             alert == <<log_notification(u, c, "status_alert",
                            IF c \in ok THEN "sent" ELSE "failed")>>
             message == IF HasPersonalMessage(u) /\ email
                        THEN <<log_notification(u, c, "personal_message",
                                  IF c \in ok THEN "sent" ELSE "failed")>>
                        ELSE <<>>
         IN alert \o message \o FanOutRows_AllTypes(u, Tail(cs), ok)

RECURSIVE FanOutRows(_, _, _)
\* The loop over a user's active contacts cs of check_missed_checkins and of
\* send_alert_to_contacts: per contact send_status_alert and then, when the
\* user has an enabled personal message, send_personal_message_alert; both
\* log a row only for an email contact (ok: the contacts whose mail the
\* provider accepts).
FanOutRows(u, cs, ok) ==
    IF cs = <<>> THEN <<>>
    ELSE LET c == Head(cs)
             email == contacts[c].contact_type = "email"
             alert == IF email
                      THEN <<log_notification(u, c, "status_alert",
                                IF c \in ok THEN "sent" ELSE "failed")>>
                      ELSE <<>>
             message == IF HasPersonalMessage(u) /\ email
                        THEN <<log_notification(u, c, "personal_message",
                                  IF c \in ok THEN "sent" ELSE "failed")>>
                        ELSE <<>>
         IN alert \o message \o FanOutRows(u, Tail(cs), ok)

RECURSIVE SweepRows_SkipAlerted(_, _)
\* the loop leaving out a user whom an earlier run already alerted
SweepRows_SkipAlerted(us, ok) ==
    IF us = {} THEN <<>>
    ELSE LET u == CHOOSE x \in us : \A y \in us : x <= y
             alerted == \E i \in 1..Len(notification_logs) :
                           /\ notification_logs[i].user_id = u
                           /\ notification_logs[i].type = "status_alert"
         IN (IF alerted THEN <<>>
             ELSE FanOutRows(u, get_active_contacts(contacts, u), ok))
                \o SweepRows_SkipAlerted(us \ {u}, ok)

RECURSIVE SweepRows(_, _)
\* the loop over the users that missed their deadline (in id order)
SweepRows(us, ok) ==
    IF us = {} THEN <<>>
    ELSE LET u == CHOOSE x \in us : \A y \in us : x <= y
         IN FanOutRows(u, get_active_contacts(contacts, u), ok)
                \o SweepRows(us \ {u}, ok)

\* how many of the rows are mails of `type` the provider accepted
SentCount(rows, type) ==
    Cardinality({i \in 1..Len(rows) :
                    rows[i].type = type /\ rows[i].status = "sent"})

\* the sweep abandoning the run at the first mail the provider refuses
check_missed_checkins_StopAtFailure ==
    /\ Len(notification_logs) < MaxLogs
    /\ LET missed == {u \in SweepUsers : HasMissed(u)}
       IN \E ok \in SUBSET MailTargets(missed) :
            LET all == SweepRows(missed, ok)
                failed == {i \in 1..Len(all) : all[i].status = "failed"}
                rows == IF failed = {} THEN all
                        ELSE SubSeq(all, 1,
                                 CHOOSE i \in failed : \A j \in failed : i <= j)
            IN /\ notification_logs' = notification_logs \o rows
               /\ reply' = [op |-> "check_missed_checkins",
                            processed_users |-> Cardinality(missed),
                            alerts_sent |-> SentCount(rows, "status_alert"),
                            messages_sent |-> SentCount(rows, "personal_message"),
                            timestamp |-> now]
    /\ UNCHANGED <<clock, checkin, contacts, sos, quick, intake, upkeep>>

\* scheduler/tasks.py check_missed_checkins: one run of the sweep
check_missed_checkins ==
    /\ Len(notification_logs) < MaxLogs
    /\ LET missed == {u \in SweepUsers : HasMissed(u)}
       IN \E ok \in SUBSET MailTargets(missed) :
            LET rows == SweepRows(missed, ok)
            IN /\ notification_logs' = notification_logs \o rows
               /\ reply' = [op |-> "check_missed_checkins",
                            processed_users |-> Cardinality(missed),
                            alerts_sent |-> SentCount(rows, "status_alert"),
                            messages_sent |-> SentCount(rows, "personal_message"),
                            timestamp |-> now]
    /\ UNCHANGED <<clock, checkin, contacts, sos, quick, intake, upkeep>>

\* scheduler/tasks.py send_alert_to_contacts: the alert of one user on
\* demand; no deadline is consulted.
send_alert_to_contacts(user_id) ==
    /\ Len(notification_logs) < MaxLogs
    /\ IF user_id \notin DOMAIN users
       THEN /\ reply' = [op |-> "send_alert_to_contacts", user_id |-> user_id,
                         error |-> "User not found"]
            /\ UNCHANGED notification_logs
       ELSE IF users[user_id].last_check_in = NULL
       THEN /\ reply' = [op |-> "send_alert_to_contacts", user_id |-> user_id,
                         error |-> "No check-in history"]
            /\ UNCHANGED notification_logs
       ELSE \E ok \in SUBSET MailTargets({user_id}) :
              LET rows == FanOutRows(user_id,
                              get_active_contacts(contacts, user_id), ok)
              IN /\ notification_logs' = notification_logs \o rows
                 /\ reply' = [op |-> "send_alert_to_contacts",
                              user_id |-> user_id, error |-> "none",
                              alerts_sent |-> SentCount(rows, "status_alert"),
                              messages_sent |-> SentCount(rows, "personal_message"),
                              timestamp |-> now]
    /\ UNCHANGED <<clock, checkin, contacts, sos, quick, intake, upkeep>>

\* ---------------------------------------------------------- reminder sweep
\* the users the reminder sweep queries: active, with a push destination and
\* a last check-in
ReminderUsers ==
    {u \in DOMAIN users : /\ users[u].is_active
                          /\ users[u].fcm_token # NULL
                          /\ users[u].last_check_in # NULL}

\* the settings table once get_reminder_settings has run for each of `us`
SettingsFor(tbl, us) ==
    [u \in DOMAIN tbl \cup us |->
        IF u \in DOMAIN tbl THEN tbl[u] ELSE DefaultReminderSettings]

\* last_check_in + timedelta(days=check_in_cycle)
cycle_deadline(u) == users[u].last_check_in + users[u].check_in_cycle * DAY

\* cycle_deadline + timedelta(hours=grace_period)
full_deadline(u) == cycle_deadline(u) + users[u].grace_period * HOUR

\* int((cycle_deadline - now).total_seconds() / 3600): whole hours, cut
\* towards zero
hours_until_deadline(u) ==
    LET secs == cycle_deadline(u) - now
    IN IF secs >= 0 THEN secs \div HOUR ELSE 0 - ((0 - secs) \div HOUR)

\* the sweep taking everything after the cycle deadline for the grace period
ReminderFor_UrgentPastGrace(u, row) ==
    IF ~row.push_enabled THEN [kind |-> "none", skipped |-> "push_disabled"]
    ELSE IF is_in_quiet_hours(row, NULL)
    THEN [kind |-> "none", skipped |-> "quiet_hours"]
    ELSE IF now > cycle_deadline(u)
    THEN [kind |-> "urgent", custom_message |-> row.custom_message]
    ELSE IF /\ hours_until_deadline(u) > 0
            /\ should_send_reminder(row, hours_until_deadline(u))[1]
    THEN [kind |-> "normal",
          custom_message |->
              should_send_reminder(row, hours_until_deadline(u))[2],
          days_remaining |-> hours_until_deadline(u) \div 24]
    ELSE [kind |-> "none", skipped |-> "not_due"]

\* what the sweep does for one queried user whose settings row is `row`
ReminderFor(u, row) ==
    IF ~row.push_enabled THEN [kind |-> "none", skipped |-> "push_disabled"]
    ELSE IF is_in_quiet_hours(row, NULL)
    THEN [kind |-> "none", skipped |-> "quiet_hours"]
    ELSE IF now > cycle_deadline(u) /\ now < full_deadline(u)
    THEN [kind |-> "urgent", custom_message |-> row.custom_message]
    ELSE IF /\ hours_until_deadline(u) > 0
            /\ should_send_reminder(row, hours_until_deadline(u))[1]
    THEN [kind |-> "normal",
          custom_message |->
              should_send_reminder(row, hours_until_deadline(u))[2],
          days_remaining |-> hours_until_deadline(u) \div 24]
    ELSE [kind |-> "none", skipped |-> "not_due"]

RECURSIVE ReminderTokens(_)
\* the session tokens minted for the users `us`, in the order of their ids
ReminderTokens(us) ==
    IF us = {} THEN <<>>
    ELSE LET u == CHOOSE x \in us : \A y \in us : x <= y
         IN <<[user_id |-> u,
               expires_at |-> now + DEFAULT_EXPIRES_HOURS * HOUR,
               used_at |-> NULL]>> \o ReminderTokens(us \ {u})

\* The reminder sweep, one run: each queried user's settings are loaded
\* (and created with the defaults when missing); a user not skipped for
\* disabled push or quiet hours gets the urgent or the normal reminder with
\* a fresh session token; `ok` are the users whose push is delivered.
send_reminder_notifications ==
    /\ Len(session_tokens) < MaxTokens
    /\ LET tbl == SettingsFor(reminder_settings, ReminderUsers)
           sent == [u \in ReminderUsers |-> ReminderFor(u, tbl[u])]
           reminded == {u \in ReminderUsers : sent[u].kind # "none"}
       IN /\ reminder_settings' = tbl
          /\ session_tokens' = session_tokens \o ReminderTokens(reminded)
          /\ \E ok \in SUBSET reminded :
                reply' = [op |-> "send_reminder_notifications",
                          reminders |-> sent,
                          normal_reminders_sent |->
                              Cardinality({u \in ok :
                                              sent[u].kind = "normal"}),
                          urgent_reminders_sent |->
                              Cardinality({u \in ok :
                                              sent[u].kind = "urgent"}),
                          skipped_quiet_hours |->
                              Cardinality({u \in ReminderUsers :
                                  /\ sent[u].kind = "none"
                                  /\ sent[u].skipped = "quiet_hours"}),
                          timestamp |-> now]
    /\ UNCHANGED <<clock, users, check_in_logs, contacts, notification_logs,
                   sos, quick_reqs, intake, task_requests>>

\* ------------------------------------------------------------ job retries
\* the tasks of scheduler/tasks.py; each is declared with the same retry
\* policy and ends in the same handler: except Exception -> db.rollback()
\* -> raise self.retry(exc=e)
JobTasks ==
    {"check_missed_checkins", "send_alert_to_contacts",
     "send_reminder_notifications", "cleanup_expired_session_tokens",
     "send_sos_alerts_delayed"}

\* a task is sent to the queue, by beat or by .delay(), or for the SOS
\* dispatch by apply_async(countdown=SOS_COUNTDOWN_SECONDS)
apply_async(task) ==
    /\ Len(task_requests) < MaxJobs
    /\ task_requests' = Append(task_requests,
           [task |-> task, state |-> "queued", retries |-> 0, attempts |-> 0,
            eta |-> IF task = "send_sos_alerts_delayed"
                    THEN now + SOS_COUNTDOWN_SECONDS ELSE now])
    /\ reply' = [op |-> "apply_async", task |-> task]
    /\ UNCHANGED <<clock, checkin, contacts, notification_logs, sos, quick,
                   intake, reminder_settings>>

\* self.retry re-queueing the request also after max_retries retries
MayRetry_OnceMore(req) == req.retries <= max_retries

\* self.retry: the request is queued again unless it has already been
\* retried max_retries times, in which case the exception is raised
MayRetry(req) == req.retries < max_retries

\* A worker executes request i once its eta has come. The body either
\* returns its result or raises; the handler then rolls the session back
\* and calls self.retry, which queues the request again default_retry_delay
\* seconds later with retries + 1, or gives up.
run_task(i) ==
    /\ i \in DOMAIN task_requests
    /\ task_requests[i].state \in {"queued", "retry"}
    /\ now >= task_requests[i].eta
    /\ \E raises \in BOOLEAN :
          LET req == task_requests[i]
              ran == [req EXCEPT !.attempts = req.attempts + 1]
          IN /\ task_requests' =
                   [task_requests EXCEPT ![i] =
                       IF ~raises THEN [ran EXCEPT !.state = "succeeded"]
                       ELSE IF MayRetry(req)
                       THEN [ran EXCEPT !.state = "retry",
                                        !.retries = req.retries + 1,
                                        !.eta = now + default_retry_delay]
                       ELSE [ran EXCEPT !.state = "failed"]]
             /\ reply' = [op |-> "run_task", request |-> i, raised |-> raises]
    /\ UNCHANGED <<clock, checkin, contacts, notification_logs, sos, quick,
                   intake, reminder_settings>>

\* time passes until the eta of request i
wait_for_eta(i) ==
    /\ i \in DOMAIN task_requests
    /\ task_requests[i].state \in {"queued", "retry"}
    /\ now < task_requests[i].eta
    /\ now' = task_requests[i].eta
    /\ UNCHANGED <<ticks, checkin, contacts, notification_logs, sos, quick,
                   intake, upkeep, reply>>

\* ---------------------------------------------------------- beat schedule
\* the schedule with the reminder sweep at midnight and noon only
beat_schedule_TwiceDaily ==
    {[name |-> "check-missed-checkins-midnight",
      task |-> "check_missed_checkins", hours |-> {0}],
     [name |-> "check-missed-checkins-noon",
      task |-> "check_missed_checkins", hours |-> {12}],
     [name |-> "send-reminder-notifications",
      task |-> "send_reminder_notifications", hours |-> {0, 12}]}

\* scheduler/celery_app.py beat_schedule: each entry with the hours of the
\* day of its crontab (minute 0); crontab(hour="*/6") is 0, 6, 12 and 18
beat_schedule ==
    {[name |-> "check-missed-checkins-midnight",
      task |-> "check_missed_checkins", hours |-> {0}],
     [name |-> "check-missed-checkins-noon",
      task |-> "check_missed_checkins", hours |-> {12}],
     [name |-> "send-reminder-notifications",
      task |-> "send_reminder_notifications", hours |-> {0, 6, 12, 18}]}

\* the entry is due at the instant t
IsDue(entry, t) == t % HOUR = 0 /\ ((t % DAY) \div HOUR) \in entry.hours

\* beat has sent the entry's task for this instant
IsDispatched(entry) ==
    \E i \in DOMAIN task_requests :
       /\ task_requests[i].task = entry.task
       /\ task_requests[i].eta = now

\* Beat sends the task of an entry that is due now.
beat_dispatch(entry) ==
    /\ IsDue(entry, now)
    /\ ~IsDispatched(entry)
    /\ task_requests' = Append(task_requests,
           [task |-> entry.task, state |-> "queued", retries |-> 0,
            attempts |-> 0, eta |-> now])
    /\ reply' = [op |-> "beat_dispatch", name |-> entry.name]
    /\ UNCHANGED <<clock, checkin, contacts, notification_logs, sos, quick,
                   intake, reminder_settings>>

\* A worker runs the queued request i of beat to its end; the body is the
\* task's: the missed-check-in sweep, the reminder sweep, or the token
\* cleanup (every mail and push is delivered).
run_beat_task(i) ==
    /\ i \in DOMAIN task_requests
    /\ task_requests[i].state = "queued"
    /\ LET task == task_requests[i].task
           missed == {u \in SweepUsers : HasMissed(u)}
           tbl == SettingsFor(reminder_settings, ReminderUsers)
           reminded == {u \in ReminderUsers :
                           ReminderFor(u, tbl[u]).kind # "none"}
       IN /\ task_requests' =
                 [task_requests EXCEPT ![i].state = "succeeded",
                                       ![i].attempts = 1]
          /\ notification_logs' =
                 IF task = "check_missed_checkins"
                 THEN notification_logs
                          \o SweepRows(missed, MailTargets(missed))
                 ELSE notification_logs
          /\ reminder_settings' =
                 IF task = "send_reminder_notifications"
                 THEN tbl ELSE reminder_settings
          /\ session_tokens' =
                 IF task = "send_reminder_notifications"
                 THEN session_tokens \o ReminderTokens(reminded)
                 ELSE IF task = "cleanup_expired_session_tokens"
                 THEN cleanup_expired_tokens(session_tokens)
                 ELSE session_tokens
          /\ reply' = [op |-> "run_beat_task", task |-> task, request |-> i]
    /\ UNCHANGED <<clock, checkin, contacts, sos, quick_reqs, intake>>

\* the midnight at which beat is started
BeatStart == 20 * DAY

\* the next instant at which an entry of the schedule is due
NextBeat ==
    LET hours == {(now - (now % HOUR)) + k * HOUR : k \in 1..24}
        due == {t \in hours : \E entry \in beat_schedule : IsDue(entry, t)}
    IN CHOOSE t \in due : \A other \in due : t <= other

\* Time passes until the next entry is due: everything due now has been
\* sent and run (a task is limited to 5 minutes).
beat_wait ==
    /\ now < BeatStart + MaxDays * DAY
    /\ \A entry \in beat_schedule : IsDue(entry, now) => IsDispatched(entry)
    /\ \A i \in DOMAIN task_requests : task_requests[i].state # "queued"
    /\ now' = NextBeat
    /\ UNCHANGED <<ticks, checkin, contacts, notification_logs, sos, quick,
                   intake, upkeep, reply>>

\* ------------------------------------------------------- initial states
\* A user row as users/models.py creates it, who has checked in at `last`.
UserRow(last) ==
    [is_active |-> TRUE, last_check_in |-> last,
     check_in_cycle |-> DEFAULT_CHECK_IN_CYCLE,
     grace_period |-> DEFAULT_GRACE_PERIOD,
     personal_message |-> "none", fcm_token |-> NULL]

\* A contact row that has been through create_contact and, for a responded
\* status, request_consent and process_consent.
ContactRow(user_id, type, priority, status, verified) ==
    [user_id |-> user_id, contact_type |-> type, priority |-> priority,
     is_verified |-> verified, status |-> status,
     consent_token |-> NULL, consent_requested_at |-> NULL,
     consent_responded_at |-> NULL, consent_expires_at |-> NULL]

\* No POST /contacts is under way; the ids drawn so far are those of the
\* rows of the table and no consent token has been drawn.
NothingIssued ==
    /\ issued = [contact_ids |-> Len(contacts), consent_tokens |-> 0]
    /\ contact_reqs = <<>>

\* No user has opened the reminder settings yet and no scheduler job has
\* been started.
NothingScheduled ==
    /\ reminder_settings = <<>>
    /\ task_requests = <<>>

\* The contacts of the SOS scenarios: user 1 has an approved email contact,
\* an approved sms contact and a contact that has not answered; user 2 has
\* an approved email contact.
SOSContacts ==
    <<ContactRow(1, "email", 1, CONSENT_STATUS_APPROVED, TRUE),
      ContactRow(1, "sms", 2, CONSENT_STATUS_APPROVED, TRUE),
      ContactRow(1, "email", 3, CONSENT_STATUS_PENDING, FALSE),
      ContactRow(2, "email", 1, CONSENT_STATUS_APPROVED, TRUE)>>

InitSOS ==
    /\ now = 0
    /\ ticks = 0
    /\ users = [u \in UserIds |-> UserRow(NULL)]
    /\ check_in_logs = <<>>
    /\ contacts = SOSContacts
    /\ notification_logs = <<>>
    /\ sos_events = <<>>
    /\ sos_jobs = <<>>
    /\ cancel_reqs = <<>>
    /\ session_tokens = <<>>
    /\ quick_reqs = <<>>
    /\ NothingIssued
    /\ NothingScheduled
    /\ reply = NoReply

NextSOS ==
    \/ Tick(SOS_COUNTDOWN_SECONDS)
    \/ \E u \in UserIds : trigger_sos(u)
    \/ \E u \in UserIds, e \in 1..(MaxSOS + 1) : cancel_sos_read(u, e)
    \/ \E r \in 1..MaxCancel : cancel_sos_write(r)
    \/ \E e \in 1..MaxSOS : sos_job_check(e)
    \/ \E e \in 1..MaxSOS : sos_job_fanout(e)
    \/ \E e \in 1..MaxSOS : sos_job_mark(e)

SpecSOS == InitSOS /\ [][NextSOS]_vars

\* The clients' inputs
Methods == {"button_click", "app_open"}
Settings == {<<7, 48>>, <<14, 24>>}

\* Freshly registered users, nobody has checked in.
InitCheckIn ==
    /\ now = 0
    /\ ticks = 0
    /\ users = [u \in UserIds |-> UserRow(NULL)]
    /\ check_in_logs = <<>>
    /\ contacts = <<>>
    /\ notification_logs = <<>>
    /\ sos_events = <<>>
    /\ sos_jobs = <<>>
    /\ cancel_reqs = <<>>
    /\ session_tokens = <<>>
    /\ quick_reqs = <<>>
    /\ NothingIssued
    /\ NothingScheduled
    /\ reply = NoReply

NextCheckIn ==
    \/ Tick(DAY)
    \/ \E u \in UserIds, m \in Methods : perform_checkin(u, m)
    \/ \E u \in UserIds \cup {NoUser}, m \in Methods : call_create_check_in(u, m)
    \/ \E s \in Settings : update_settings(1, s[1], s[2])
    \/ \E u \in UserIds : delete_user(u)

SpecCheckIn == InitCheckIn /\ [][NextCheckIn]_vars

\* The moment the alert scenarios start at, and their users, as
\* <<is_active, last_check_in, check_in_cycle, grace_period>>: never checked
\* in; one second past the deadline of 7 days + 48 hours; exactly at the
\* deadline of 14 days + 24 hours; past the deadline with the account deleted.
AlertStart == 20 * DAY
DeadlineAfter(cycle_days, grace_hours) == cycle_days * DAY + grace_hours * HOUR
AlertUsers ==
    {<<TRUE, NULL, 7, 48>>,
     <<TRUE, AlertStart - DeadlineAfter(7, 48) - 1, 7, 48>>,
     <<TRUE, AlertStart - DeadlineAfter(14, 24), 14, 24>>,
     <<FALSE, AlertStart - DeadlineAfter(7, 48) - 1, 7, 48>>}

\* The contacts of the alert scenarios, in the states create_contact,
\* verify_contact, request_consent, process_consent and get_consent_status
\* leave a contact in.
AlertContacts ==
    <<ContactRow(1, "email", 1, CONSENT_STATUS_APPROVED, TRUE),
      ContactRow(1, "email", 2, CONSENT_STATUS_PENDING, TRUE),
      ContactRow(1, "sms", 3, CONSENT_STATUS_APPROVED, TRUE),
      ContactRow(2, "email", 1, CONSENT_STATUS_REJECTED, FALSE),
      ContactRow(2, "email", 2, CONSENT_STATUS_APPROVED, TRUE),
      ContactRow(2, "email", 3, CONSENT_STATUS_EXPIRED, TRUE)>>

\* user 1 has an enabled personal message, user 2 a disabled one
AlertMessage(u) ==
    IF u = 1 THEN "enabled" ELSE IF u = 2 THEN "disabled" ELSE "none"

\* Alert scenarios: user 1 is one second past the deadline, user 2 exactly
\* at the deadline, any further user never checked in.
AlertUser(u) ==
    IF u = 1 THEN <<TRUE, AlertStart - DeadlineAfter(7, 48) - 1, 7, 48>>
    ELSE IF u = 2 THEN <<TRUE, AlertStart - DeadlineAfter(14, 24), 14, 24>>
    ELSE <<TRUE, NULL, 7, 48>>

\* the users table of a scenario starting from the users `start`
StartUsers(start) ==
    [u \in UserIds |->
        [UserRow(start[u][2]) EXCEPT
            !.is_active = start[u][1],
            !.check_in_cycle = start[u][3],
            !.grace_period = start[u][4],
            !.personal_message = AlertMessage(u)]]

InitAlert ==
    /\ now = AlertStart
    /\ ticks = 0
    /\ users = StartUsers([u \in UserIds |-> AlertUser(u)])
    /\ check_in_logs = <<>>
    /\ contacts = AlertContacts
    /\ notification_logs = <<>>
    /\ sos_events = <<>>
    /\ sos_jobs = <<>>
    /\ cancel_reqs = <<>>
    /\ session_tokens = <<>>
    /\ quick_reqs = <<>>
    /\ NothingIssued
    /\ NothingScheduled
    /\ reply = NoReply

\* the sweep, the alert on demand and the SOS dispatch side by side
NextAlert ==
    \/ Tick(SOS_COUNTDOWN_SECONDS)
    \/ check_missed_checkins
    \/ \E u \in UserIds \cup {NoUser} : send_alert_to_contacts(u)
    \/ \E u \in UserIds : trigger_sos(u)
    \/ \E e \in 1..MaxSOS : sos_job_check(e)
    \/ \E e \in 1..MaxSOS : sos_job_fanout(e)
    \/ \E e \in 1..MaxSOS : sos_job_mark(e)

SpecAlert == InitAlert /\ [][NextAlert]_vars

\* The sweep over every mix of the users of AlertUsers, with the clock
\* crossing the deadline and accounts being deleted between runs.
InitSweep ==
    /\ now = AlertStart
    /\ ticks = 0
    /\ \E start \in [UserIds -> AlertUsers] : users = StartUsers(start)
    /\ check_in_logs = <<>>
    /\ contacts = AlertContacts
    /\ notification_logs = <<>>
    /\ sos_events = <<>>
    /\ sos_jobs = <<>>
    /\ cancel_reqs = <<>>
    /\ session_tokens = <<>>
    /\ quick_reqs = <<>>
    /\ NothingIssued
    /\ NothingScheduled
    /\ reply = NoReply

NextSweep ==
    \/ Tick(1)
    \/ check_missed_checkins
    \/ \E u \in UserIds : delete_user(u)

SpecSweep == InitSweep /\ [][NextSweep]_vars

\* The status query of a user who checked in at OverdueT (or never), under
\* each pair of settings, at instants around the deadlines.
OverdueT == DAY
OverdueSettings == {<<7, 48>>, <<14, 24>>, <<30, 72>>}
OverdueInstants ==
    {OverdueT, OverdueT + 7 * DAY,
     OverdueT + 7 * DAY + 47 * HOUR + 59 * 60,
     OverdueT + DeadlineAfter(7, 48), OverdueT + DeadlineAfter(7, 48) + 1,
     OverdueT + DeadlineAfter(14, 24), OverdueT + DeadlineAfter(14, 24) + 1,
     OverdueT + DeadlineAfter(30, 72), OverdueT + DeadlineAfter(30, 72) + 1}

InitOverdue ==
    /\ now \in OverdueInstants
    /\ ticks = 0
    /\ \E last \in {NULL, OverdueT}, st \in OverdueSettings :
          users = [u \in UserIds |->
                     IF u = 1
                     THEN [UserRow(last) EXCEPT !.check_in_cycle = st[1],
                                                !.grace_period = st[2]]
                     ELSE UserRow(OverdueT)]
    /\ check_in_logs = <<>>
    /\ contacts = <<>>
    /\ notification_logs = <<>>
    /\ sos_events = <<>>
    /\ sos_jobs = <<>>
    /\ cancel_reqs = <<>>
    /\ session_tokens = <<>>
    /\ quick_reqs = <<>>
    /\ NothingIssued
    /\ NothingScheduled
    /\ reply = NoReply

NextOverdue == \E u \in UserIds : get_status(u)

SpecOverdue == InitOverdue /\ [][NextOverdue]_vars

\* Tokens are issued for one or two hours, presented to POST /checkin/quick
\* (also unknown ones), while the clock moves an hour at a time.
InitToken ==
    /\ now = 0
    /\ ticks = 0
    /\ users = [u \in UserIds |-> UserRow(NULL)]
    /\ check_in_logs = <<>>
    /\ contacts = <<>>
    /\ notification_logs = <<>>
    /\ sos_events = <<>>
    /\ sos_jobs = <<>>
    /\ cancel_reqs = <<>>
    /\ session_tokens = <<>>
    /\ quick_reqs = <<>>
    /\ NothingIssued
    /\ NothingScheduled
    /\ reply = NoReply

NextToken ==
    \/ Tick(HOUR)
    \/ \E u \in UserIds \cup {NoUser}, h \in {DEFAULT_EXPIRES_HOURS, 2} :
          generate_session_token(u, h)
    \/ \E t \in 1..(MaxTokens + 1) : verify_and_consume_session_token(t)
    \/ \E r \in 1..MaxQuick : create_quick_check_in_with_token(r)

SpecToken == InitToken /\ [][NextToken]_vars

\* get_active_contacts over every table of up to MaxRows rows, each row with
\* any owner, status, is_verified, type and one of two priorities.
ConsentStatuses ==
    {CONSENT_STATUS_PENDING, CONSENT_STATUS_APPROVED, CONSENT_STATUS_REJECTED,
     CONSENT_STATUS_EXPIRED}
AnyContactRows ==
    {ContactRow(u, "email", p, st, v) :
        u \in UserIds, p \in {1, 2}, st \in ConsentStatuses, v \in BOOLEAN}

InitActive ==
    /\ now = 0
    /\ ticks = 0
    /\ users = [u \in UserIds |-> UserRow(NULL)]
    /\ check_in_logs = <<>>
    /\ \E n \in 0..MaxRows : contacts \in [1..n -> AnyContactRows]
    /\ notification_logs = <<>>
    /\ sos_events = <<>>
    /\ sos_jobs = <<>>
    /\ cancel_reqs = <<>>
    /\ session_tokens = <<>>
    /\ quick_reqs = <<>>
    /\ NothingIssued
    /\ NothingScheduled
    /\ reply = NoReply

NextActive == \E u \in UserIds : call_get_active_contacts(u)

SpecActive == InitActive /\ [][NextActive]_vars

\* The consent scenarios: users 1 and 2 have each created one contact, which
\* is pending and unverified and has not been asked for consent.
ConsentContacts ==
    <<ContactRow(1, "email", 1, CONSENT_STATUS_PENDING, FALSE),
      ContactRow(2, "email", 1, CONSENT_STATUS_PENDING, FALSE)>>

InitConsent ==
    /\ now = 0
    /\ ticks = 0
    /\ users = [u \in UserIds |-> UserRow(NULL)]
    /\ check_in_logs = <<>>
    /\ contacts = ConsentContacts
    /\ notification_logs = <<>>
    /\ sos_events = <<>>
    /\ sos_jobs = <<>>
    /\ cancel_reqs = <<>>
    /\ session_tokens = <<>>
    /\ quick_reqs = <<>>
    /\ NothingIssued
    /\ NothingScheduled
    /\ reply = NoReply

\* token 0 is one that request_consent never gave
ConsentTokenInputs == 0..MaxConsentTokens
ContactIdInputs == 1..(Len(ConsentContacts) + 1)

NextConsent ==
    \/ Tick(DAY)
    \/ Tick(CONSENT_TOKEN_VALIDITY_DAYS * DAY)
    \/ Tick(CONSENT_TOKEN_VALIDITY_DAYS * DAY + 1)
    \/ \E u \in UserIds, c \in ContactIdInputs : request_consent(u, c)
    \/ \E t \in ConsentTokenInputs : call_get_contact_by_consent_token(t)
    \/ \E t \in ConsentTokenInputs, a \in BOOLEAN : process_consent(t, a)
    \/ \E u \in UserIds, c \in ContactIdInputs : get_consent_status(u, c)
    \/ check_expired_consents

SpecConsent == InitConsent /\ [][NextConsent]_vars

\* Creating and deleting contacts, from the table StoredContacts.
InitContacts ==
    /\ now = 0
    /\ ticks = 0
    /\ users = [u \in UserIds |-> UserRow(NULL)]
    /\ check_in_logs = <<>>
    /\ contacts = StoredContacts
    /\ notification_logs = <<>>
    /\ sos_events = <<>>
    /\ sos_jobs = <<>>
    /\ cancel_reqs = <<>>
    /\ session_tokens = <<>>
    /\ quick_reqs = <<>>
    /\ NothingIssued
    /\ NothingScheduled
    /\ reply = NoReply

NextContacts ==
    \/ \E u \in UserIds, p \in 1..MAX_CONTACTS : create_new_contact_check(u, p)
    \/ \E i \in 1..MaxCreates : create_new_contact_insert(i)
    \/ \E u \in UserIds, c \in 1..(Len(StoredContacts) + MaxCreates + 1) :
          delete_existing_contact(u, c)

SpecContacts == InitContacts /\ [][NextContacts]_vars

\* is_in_quiet_hours over ranges within a day, overnight ranges, ranges with
\* an end unset, and times at, next to and away from the ends.
QuietHoursEnds ==
    {NULL, time(0, 0), time(8, 0), time(9, 0), time(17, 0), time(22, 0)}
ReminderSettingsRows ==
    {[quiet_hours_start |-> a, quiet_hours_end |-> b] :
        a \in QuietHoursEnds, b \in QuietHoursEnds}
QuietHoursTimes ==
    {NULL, time(7, 0), time(8, 0), time(8, 1), time(8, 59), time(9, 0),
     time(12, 0), time(17, 0), time(17, 1), time(21, 59), time(22, 0),
     time(23, 0), time(23, 59)}

InitQuiet ==
    /\ now = 0
    /\ ticks = 0
    /\ users = [u \in UserIds |-> UserRow(NULL)]
    /\ check_in_logs = <<>>
    /\ contacts = <<>>
    /\ notification_logs = <<>>
    /\ sos_events = <<>>
    /\ sos_jobs = <<>>
    /\ cancel_reqs = <<>>
    /\ session_tokens = <<>>
    /\ quick_reqs = <<>>
    /\ NothingIssued
    /\ NothingScheduled
    /\ reply = NoReply

NextQuiet ==
    \E st \in ReminderSettingsRows, t \in QuietHoursTimes :
        call_is_in_quiet_hours(st, t)

SpecQuiet == InitQuiet /\ [][NextQuiet]_vars

\* The reminder settings: requests that give some of the fields, with hours
\* in and out of range, repeated and unsorted, and messages that are empty,
\* short and longer than 100 characters; the clock at noon or at 23:00.
LongMessage == [i \in 1..101 |-> "x"]
SettingsRequests ==
    {[reminder_hours_before |-> <<3, 72>>, custom_message |-> LongMessage],
     [reminder_hours_before |-> <<0, 200>>, push_enabled |-> FALSE],
     [reminder_hours_before |-> <<24, 0, 168, 24, 169>>,
      custom_message |-> <<>>, email_enabled |-> TRUE],
     [quiet_hours_start |-> time(22, 0), quiet_hours_end |-> time(8, 0),
      preferred_time |-> time(9, 0), custom_message |-> <<"h", "i">>]}
HoursUntilDeadline == {6, 7, 21, 25, 27, 28, 30}
\* the users whose settings are read and written: the first and the last
SettingsUsers == {1, NumUsers}

InitSettings ==
    /\ now \in {time(12, 0), time(23, 0)}
    /\ ticks = 0
    /\ users = [u \in UserIds |-> UserRow(NULL)]
    /\ check_in_logs = <<>>
    /\ contacts = <<>>
    /\ notification_logs = <<>>
    /\ sos_events = <<>>
    /\ sos_jobs = <<>>
    /\ cancel_reqs = <<>>
    /\ session_tokens = <<>>
    /\ quick_reqs = <<>>
    /\ NothingIssued
    /\ NothingScheduled
    /\ reply = NoReply

NextSettings ==
    \/ \E u \in SettingsUsers, data \in SettingsRequests :
          update_reminder_settings(u, data)
    \/ \E u \in SettingsUsers, h \in HoursUntilDeadline :
          call_should_send_reminder(u, h)

SpecSettings == InitSettings /\ [][NextSettings]_vars

\* The reminder sweep: the first user has a push destination and checked in
\* some time before the start, from 4 days to 10 days, on the hour and half
\* an hour off it; the other users are inactive, without a push destination,
\* never checked in, or 5 days after their check-in. The first user's
\* settings are missing, hold the thresholds [72, 3], have push disabled, or
\* have quiet hours 22:00-08:00 and a message. The start is noon or 23:00.
ReminderStart == 20 * DAY
ReminderOffsets ==
    {4 * DAY, 5 * DAY, 6 * DAY, 7 * DAY - 4 * HOUR, 7 * DAY - 30 * 60,
     7 * DAY, 7 * DAY + 30 * 60, 9 * DAY, 10 * DAY}
ReminderUser(last, fcm_token, is_active) ==
    [UserRow(last) EXCEPT !.fcm_token = fcm_token, !.is_active = is_active]
OtherReminderUsers(t) ==
    {ReminderUser(t - 5 * DAY, 1, FALSE), ReminderUser(t - 5 * DAY, NULL, TRUE),
     ReminderUser(NULL, 1, TRUE), ReminderUser(t - 5 * DAY, 1, TRUE)}
ReminderTables ==
    {<<>>,
     [u \in {1} |-> [DefaultReminderSettings
                        EXCEPT !.reminder_hours_before = <<72, 3>>]],
     [u \in {1} |-> [DefaultReminderSettings EXCEPT !.push_enabled = FALSE]],
     [u \in {1} |-> [DefaultReminderSettings
                        EXCEPT !.quiet_hours_start = time(22, 0),
                               !.quiet_hours_end = time(8, 0),
                               !.custom_message = <<"h", "i">>]]}

InitReminder ==
    /\ now \in {ReminderStart + 12 * HOUR, ReminderStart + 23 * HOUR}
    /\ ticks = 0
    /\ \E o \in ReminderOffsets :
          \E others \in [UserIds \ {1} -> OtherReminderUsers(now)] :
             users = [u \in UserIds |->
                         IF u = 1 THEN ReminderUser(now - o, 1, TRUE)
                         ELSE others[u]]
    /\ check_in_logs = <<>>
    /\ contacts = <<>>
    /\ notification_logs = <<>>
    /\ sos_events = <<>>
    /\ sos_jobs = <<>>
    /\ cancel_reqs = <<>>
    /\ session_tokens = <<>>
    /\ quick_reqs = <<>>
    /\ NothingIssued
    /\ reminder_settings \in ReminderTables
    /\ task_requests = <<>>
    /\ reply = NoReply

NextReminder ==
    \/ Tick(HOUR)
    \/ send_reminder_notifications

SpecReminder == InitReminder /\ [][NextReminder]_vars

\* The fan-out of the sweep: each user checked in 10 days before the start
\* (overdue with cycle 7 and grace 48), with or without an enabled personal
\* message, or 5 days before it. User 1 has two approved and verified email
\* contacts and an approved and verified sms contact; user 2 has an approved
\* and verified email contact and a verified email contact whose consent
\* status is the creation default.
FanOutContacts ==
    <<ContactRow(1, "email", 1, CONSENT_STATUS_APPROVED, TRUE),
      ContactRow(1, "email", 2, CONSENT_STATUS_APPROVED, TRUE),
      ContactRow(1, "sms", 3, CONSENT_STATUS_APPROVED, TRUE),
      ContactRow(2, "email", 1, CONSENT_STATUS_APPROVED, TRUE),
      ContactRow(2, "email", 2, CONSENT_STATUS_PENDING, TRUE)>>
FanOutUsers ==
    {[UserRow(AlertStart - 10 * DAY) EXCEPT !.fcm_token = 1],
     [UserRow(AlertStart - 10 * DAY) EXCEPT !.fcm_token = 1,
                                            !.personal_message = "enabled"],
     [UserRow(AlertStart - 5 * DAY) EXCEPT !.fcm_token = 1]}

InitFanOut ==
    /\ now = AlertStart
    /\ ticks = 0
    /\ users \in [UserIds -> FanOutUsers]
    /\ check_in_logs = <<>>
    /\ contacts = FanOutContacts
    /\ notification_logs = <<>>
    /\ sos_events = <<>>
    /\ sos_jobs = <<>>
    /\ cancel_reqs = <<>>
    /\ session_tokens = <<>>
    /\ quick_reqs = <<>>
    /\ NothingIssued
    /\ NothingScheduled
    /\ reply = NoReply

\* the sweep every 12 hours, with check-ins of the first user in between
NextFanOut ==
    \/ Tick(12 * HOUR)
    \/ check_missed_checkins
    \/ perform_checkin(1, "app_open")

SpecFanOut == InitFanOut /\ [][NextFanOut]_vars

\* The scheduler jobs and their retries: up to MaxJobs requests of any of
\* the tasks, sent at midnight or at noon, each attempt of which may raise.
InitJobs ==
    /\ now \in {AlertStart, AlertStart + 12 * HOUR}
    /\ ticks = 0
    /\ users = [u \in UserIds |-> UserRow(NULL)]
    /\ check_in_logs = <<>>
    /\ contacts = <<>>
    /\ notification_logs = <<>>
    /\ sos_events = <<>>
    /\ sos_jobs = <<>>
    /\ cancel_reqs = <<>>
    /\ session_tokens = <<>>
    /\ quick_reqs = <<>>
    /\ NothingIssued
    /\ NothingScheduled
    /\ reply = NoReply

NextJobs ==
    \/ \E task \in JobTasks : apply_async(task)
    \/ \E i \in 1..MaxJobs : run_task(i)
    \/ \E i \in 1..MaxJobs : wait_for_eta(i)

SpecJobs == InitJobs /\ [][NextJobs]_vars

\* The cleanup over every table of MaxTokens + 1 tokens that expired two
\* hours ago, expire now or expire in an hour, the last unused, used 25
\* hours ago or used exactly 24 hours ago; the tokens are presented for
\* consumption before and after the cleanup.
CleanupStart == 20 * DAY
CleanupRows ==
    {[user_id |-> 1, expires_at |-> CleanupStart - 2 * HOUR, used_at |-> NULL],
     [user_id |-> 1, expires_at |-> CleanupStart, used_at |-> NULL],
     [user_id |-> 1, expires_at |-> CleanupStart + HOUR, used_at |-> NULL],
     [user_id |-> 1, expires_at |-> CleanupStart + HOUR,
      used_at |-> CleanupStart - 25 * HOUR],
     [user_id |-> 1, expires_at |-> CleanupStart + HOUR,
      used_at |-> CleanupStart - 24 * HOUR]}

InitCleanup ==
    /\ now = CleanupStart
    /\ ticks = 0
    /\ users = [u \in UserIds |-> UserRow(NULL)]
    /\ check_in_logs = <<>>
    /\ contacts = <<>>
    /\ notification_logs = <<>>
    /\ sos_events = <<>>
    /\ sos_jobs = <<>>
    /\ cancel_reqs = <<>>
    /\ session_tokens \in [1..(MaxTokens + 1) -> CleanupRows]
    /\ quick_reqs = <<>>
    /\ NothingIssued
    /\ NothingScheduled
    /\ reply = NoReply

NextCleanup ==
    \/ Tick(HOUR)
    \/ cleanup_expired_session_tokens
    \/ \E t \in 1..(MaxTokens + 1) : verify_and_consume_session_token(t)

SpecCleanup == InitCleanup /\ [][NextCleanup]_vars

\* Beat over MaxDays days from midnight: the first user checked in 5 days
\* (a reminder is due at once) or 8 days ago (in the grace period), or
\* never; a session token that expired two hours ago, one that expires in
\* an hour, or none is stored.
BeatTokens ==
    {<<>>,
     <<[user_id |-> 1, expires_at |-> BeatStart - 2 * HOUR, used_at |-> NULL]>>,
     <<[user_id |-> 1, expires_at |-> BeatStart + HOUR, used_at |-> NULL]>>}

InitBeat ==
    /\ now = BeatStart
    /\ ticks = 0
    /\ \E last \in {NULL, BeatStart - 5 * DAY, BeatStart - 8 * DAY} :
          users = [u \in UserIds |->
                      IF u = 1 THEN ReminderUser(last, 1, TRUE)
                      ELSE UserRow(NULL)]
    /\ check_in_logs = <<>>
    /\ contacts = <<>>
    /\ notification_logs = <<>>
    /\ sos_events = <<>>
    /\ sos_jobs = <<>>
    /\ cancel_reqs = <<>>
    /\ session_tokens \in BeatTokens
    /\ quick_reqs = <<>>
    /\ NothingIssued
    /\ NothingScheduled
    /\ reply = NoReply

NextBeatStep ==
    \/ \E entry \in beat_schedule : beat_dispatch(entry)
    \/ \E i \in 1..(8 * (MaxDays + 1)) : run_beat_task(i)
    \/ beat_wait

SpecBeat == InitBeat /\ [][NextBeatStep]_vars

\* Every kind of operation next to the check-ins, for a user who is past
\* the deadline with one check-in logged: the operations that are not
\* check-ins are those of the first user, each with one input.
FrameContacts ==
    <<ContactRow(1, "email", 1, CONSENT_STATUS_APPROVED, TRUE),
      ContactRow(1, "email", 2, CONSENT_STATUS_PENDING, FALSE)>>
FrameLast == AlertStart - DeadlineAfter(7, 48) - 1

InitFrame ==
    /\ now = AlertStart
    /\ ticks = 0
    /\ users = [u \in UserIds |->
                   IF u = 1 THEN ReminderUser(FrameLast, 1, TRUE)
                   ELSE UserRow(NULL)]
    /\ check_in_logs = <<[user_id |-> 1, checked_at |-> FrameLast,
                          method |-> "app_open"]>>
    /\ contacts = FrameContacts
    /\ notification_logs = <<>>
    /\ sos_events = <<>>
    /\ sos_jobs = <<>>
    /\ cancel_reqs = <<>>
    /\ session_tokens = <<>>
    /\ quick_reqs = <<>>
    /\ NothingIssued
    /\ NothingScheduled
    /\ reply = NoReply

\* the tables other than the check-in tables that are no longer as at the
\* start
Touched ==
    {k \in {"settings", "contacts", "sos", "logs", "tokens"} :
        \/ k = "settings" /\ (\/ reminder_settings # <<>>
                              \/ \E u \in UserIds :
                                    \/ ~users[u].is_active
                                    \/ users[u].check_in_cycle
                                          # DEFAULT_CHECK_IN_CYCLE)
        \/ k = "contacts" /\ (\/ contacts # FrameContacts
                              \/ contact_reqs # <<>>
                              \/ issued.consent_tokens # 0)
        \/ k = "sos" /\ (sos_events # <<>> \/ cancel_reqs # <<>>)
        \/ k = "logs" /\ notification_logs # <<>>
        \/ k = "tokens" /\ (session_tokens # <<>> \/ quick_reqs # <<>>)}

Only(kinds) == Touched \subseteq kinds

\* Check-ins interleave with everything; the operations of the other kinds
\* run one kind at a time (they write tables of their own), each kind from
\* the start state and in any order with the check-ins.
NextFrame ==
    \/ \E u \in UserIds : perform_checkin(u, "app_open")
    \/ Only({"tokens"}) /\ generate_session_token(1, DEFAULT_EXPIRES_HOURS)
    \/ Only({"tokens"}) /\ verify_and_consume_session_token(1)
    \/ Only({"tokens"}) /\ create_quick_check_in_with_token(1)
    \/ Only({"settings"}) /\ update_settings(1, 14, 24)
    \/ Only({"settings"}) /\
          \E data \in SettingsRequests : update_reminder_settings(1, data)
    \/ Only({"settings"}) /\ delete_user(1)
    \/ Only({"contacts"}) /\ create_new_contact_check(1, 3)
    \/ Only({"contacts"}) /\ create_new_contact_insert(1)
    \/ Only({"contacts"}) /\ delete_existing_contact(1, 2)
    \/ Only({"contacts"}) /\ request_consent(1, 2)
    \/ Only({"contacts"}) /\ process_consent(1, TRUE)
    \/ Only({"contacts"}) /\ check_expired_consents
    \/ Only({"sos", "logs"}) /\ trigger_sos(1)
    \/ Only({"sos", "logs"}) /\ cancel_sos_read(1, 1)
    \/ Only({"sos", "logs"}) /\ cancel_sos_write(1)
    \/ Only({"sos"}) /\ sos_events # <<>> /\ Tick(SOS_COUNTDOWN_SECONDS)
    \/ Only({"sos", "logs"}) /\ sos_job_check(1)
    \/ Only({"sos", "logs"}) /\ sos_job_fanout(1)
    \/ Only({"sos", "logs"}) /\ sos_job_mark(1)
    \/ Only({"logs"}) /\ check_missed_checkins
    \/ Only({"tokens", "settings"}) /\ send_reminder_notifications
    \/ Only({"tokens"}) /\ cleanup_expired_session_tokens

SpecFrame == InitFrame /\ [][NextFrame]_vars

\* Check-ins that restart the deadline: user 1 starts a second past the
\* deadline of the defaults and user 2 exactly at the deadline of 14 days
\* and 24 hours, each with one approved e-mail contact; the clock moves on by
\* one of the deadlines, to the second or one second more; user 1 checks in,
\* asks for the status and lengthens the cycle.
ResetContacts ==
    <<ContactRow(1, "email", 1, CONSENT_STATUS_APPROVED, TRUE),
      ContactRow(2, "email", 1, CONSENT_STATUS_APPROVED, TRUE)>>
ResetTicks ==
    {DeadlineAfter(7, 48), DeadlineAfter(7, 48) + 1, DeadlineAfter(14, 24)}

InitReset ==
    /\ now = AlertStart
    /\ ticks = 0
    /\ users = [u \in UserIds |->
                   IF u = 1 THEN UserRow(AlertStart - DeadlineAfter(7, 48) - 1)
                   ELSE IF u = 2
                   THEN [UserRow(AlertStart - DeadlineAfter(14, 24)) EXCEPT
                            !.check_in_cycle = 14, !.grace_period = 24]
                   ELSE UserRow(NULL)]
    /\ check_in_logs = <<>>
    /\ contacts = ResetContacts
    /\ notification_logs = <<>>
    /\ sos_events = <<>>
    /\ sos_jobs = <<>>
    /\ cancel_reqs = <<>>
    /\ session_tokens = <<>>
    /\ quick_reqs = <<>>
    /\ NothingIssued
    /\ NothingScheduled
    /\ reply = NoReply

NextReset ==
    \/ \E d \in ResetTicks : Tick(d)
    \/ perform_checkin(1, "button_click")
    \/ get_status(1)
    \/ update_settings(1, 14, 24)
    \/ check_missed_checkins

SpecReset == InitReset /\ [][NextReset]_vars

\* The status query of a user who checked in at OverdueT (or never), at
\* instants before, at and after the cycle deadline of each setting: a
\* second, an hour, a day and a second less than a day before it, and a
\* second after it.
RemainingOffsets ==
    {0, 1, HOUR - 1, HOUR, HOUR + 1, DAY - 1, DAY, DAY + HOUR,
     6 * DAY + 23 * HOUR + 59 * 60, 0 - 1, 0 - DAY}

InitRemaining ==
    /\ \E st \in OverdueSettings, off \in RemainingOffsets :
          /\ now = OverdueT + st[1] * DAY - off
          /\ \E last \in {NULL, OverdueT} :
                users = [u \in UserIds |->
                           IF u = 1
                           THEN [UserRow(last) EXCEPT
                                    !.check_in_cycle = st[1],
                                    !.grace_period = st[2]]
                           ELSE UserRow(OverdueT)]
    /\ ticks = 0
    /\ check_in_logs = <<>>
    /\ contacts = <<>>
    /\ notification_logs = <<>>
    /\ sos_events = <<>>
    /\ sos_jobs = <<>>
    /\ cancel_reqs = <<>>
    /\ session_tokens = <<>>
    /\ quick_reqs = <<>>
    /\ NothingIssued
    /\ NothingScheduled
    /\ reply = NoReply

NextRemaining == \E u \in UserIds : get_status(u)

SpecRemaining == InitRemaining /\ [][NextRemaining]_vars

\* Both sweeps over one user with a push destination and an approved e-mail
\* contact, who checked in (with the default cycle of 7 days and grace of 48
\* hours) a day before the cycle deadline, a second before, at and a second
\* after the cycle deadline, and likewise around the full deadline; the
\* clock moves on by a second, an hour or the grace period.
BothSweepsOffsets ==
    {6 * DAY, 7 * DAY - 1, 7 * DAY, 7 * DAY + 1,
     9 * DAY - 1, 9 * DAY, 9 * DAY + 1}

InitBothSweeps ==
    /\ now = ReminderStart + 12 * HOUR
    /\ ticks = 0
    /\ \E o \in BothSweepsOffsets :
          users = [u \in UserIds |->
                      IF u = 1 THEN ReminderUser(now - o, 1, TRUE)
                      ELSE UserRow(NULL)]
    /\ check_in_logs = <<>>
    /\ contacts = <<ContactRow(1, "email", 1, CONSENT_STATUS_APPROVED, TRUE)>>
    /\ notification_logs = <<>>
    /\ sos_events = <<>>
    /\ sos_jobs = <<>>
    /\ cancel_reqs = <<>>
    /\ session_tokens = <<>>
    /\ quick_reqs = <<>>
    /\ NothingIssued
    /\ NothingScheduled
    /\ reply = NoReply

NextBothSweeps ==
    \/ \E d \in {1, HOUR, DEFAULT_GRACE_PERIOD * HOUR} : Tick(d)
    \/ send_reminder_notifications
    \/ check_missed_checkins

SpecBothSweeps == InitBothSweeps /\ [][NextBothSweeps]_vars

\* The contact service on the contacts of user 1, from an empty table: a
\* contact is created, renumbered, asked for consent, answered, verified,
\* queried and left to expire, in any order.
InitVerified ==
    /\ now = 0
    /\ ticks = 0
    /\ users = [u \in UserIds |-> UserRow(NULL)]
    /\ check_in_logs = <<>>
    /\ contacts = <<>>
    /\ notification_logs = <<>>
    /\ sos_events = <<>>
    /\ sos_jobs = <<>>
    /\ cancel_reqs = <<>>
    /\ session_tokens = <<>>
    /\ quick_reqs = <<>>
    /\ NothingIssued
    /\ NothingScheduled
    /\ reply = NoReply

NextVerified ==
    \/ Tick(CONSENT_TOKEN_VALIDITY_DAYS * DAY + 1)
    \/ create_new_contact_check(1, 1)
    \/ create_new_contact_insert(1)
    \/ \E p \in {NULL, 2} : update_contact(1, 1, p)
    \/ request_consent(1, 1)
    \/ \E t \in 1..MaxConsentTokens, a \in BOOLEAN : process_consent(t, a)
    \/ verify_contact(1)
    \/ get_consent_status(1, 1)
    \/ check_expired_consents

SpecVerified == InitVerified /\ [][NextVerified]_vars

\* Asking again for consent: user 1 is a second past the deadline and has a
\* contact that approved an earlier request and one that was never asked;
\* consent is requested and answered and the sweep runs, in any order.
ReconsentContacts ==
    <<ContactRow(1, "email", 1, CONSENT_STATUS_APPROVED, TRUE),
      ContactRow(1, "email", 2, CONSENT_STATUS_PENDING, FALSE)>>

InitReconsent ==
    /\ now = AlertStart
    /\ ticks = 0
    /\ users = [u \in UserIds |->
                   IF u = 1 THEN UserRow(AlertStart - DeadlineAfter(7, 48) - 1)
                   ELSE UserRow(NULL)]
    /\ check_in_logs = <<>>
    /\ contacts = ReconsentContacts
    /\ notification_logs = <<>>
    /\ sos_events = <<>>
    /\ sos_jobs = <<>>
    /\ cancel_reqs = <<>>
    /\ session_tokens = <<>>
    /\ quick_reqs = <<>>
    /\ NothingIssued
    /\ NothingScheduled
    /\ reply = NoReply

NextReconsent ==
    \/ \E c \in DOMAIN ReconsentContacts : request_consent(1, c)
    \/ \E t \in 1..MaxConsentTokens, a \in BOOLEAN : process_consent(t, a)
    \/ check_missed_checkins

SpecReconsent == InitReconsent /\ [][NextReconsent]_vars

\* Beat polling for one reminder threshold: the first user has push enabled,
\* no quiet hours and a single threshold h, and a cycle deadline placed so
\* that the hours in which the sweep answers to h fall into the first day of
\* beat: h = 164 (the largest threshold of the claim for 7 days) with the
\* check-in up to 6 hours before the start, and h = 4 and h = 24 with the
\* deadline later that day or the next; the deadline is moved against the
\* grid of the sweeps by each of PollingPhases.
PollingPhases ==
    {0, 1, HOUR, 2 * HOUR + 30 * 60, 3 * HOUR, 5 * HOUR, 6 * HOUR - 1}
PollingCases ==
    {<<164, BeatStart + 7 * DAY - p>> : p \in PollingPhases}
        \cup {<<4, BeatStart + 12 * HOUR + p>> : p \in PollingPhases}
        \cup {<<24, BeatStart + 30 * HOUR + p>> : p \in PollingPhases}

InitPolling ==
    /\ now = BeatStart
    /\ ticks = 0
    /\ \E case \in PollingCases :
          /\ users = [u \in UserIds |->
                         IF u = 1
                         THEN ReminderUser(case[2] - DEFAULT_CHECK_IN_CYCLE * DAY,
                                           1, TRUE)
                         ELSE UserRow(NULL)]
          /\ reminder_settings =
                [u \in {1} |-> [DefaultReminderSettings EXCEPT
                                   !.reminder_hours_before = <<case[1]>>]]
    /\ check_in_logs = <<>>
    /\ contacts = <<>>
    /\ notification_logs = <<>>
    /\ sos_events = <<>>
    /\ sos_jobs = <<>>
    /\ cancel_reqs = <<>>
    /\ session_tokens = <<>>
    /\ quick_reqs = <<>>
    /\ NothingIssued
    /\ task_requests = <<>>
    /\ reply = NoReply

SpecPolling == InitPolling /\ [][NextBeatStep]_vars

\* The SOS dispatch with a worker that runs every job it is given and
\* requests that run to their end: user 1, with the contacts of
\* SOSContacts, triggers and cancels, the countdown of each job elapses,
\* and the job is run step by step; the start is one of DispatchStarts.
DispatchStarts == {0, HOUR, DAY}

InitDispatch ==
    /\ now \in DispatchStarts
    /\ ticks = 0
    /\ users = [u \in UserIds |-> UserRow(NULL)]
    /\ check_in_logs = <<>>
    /\ contacts = SOSContacts
    /\ notification_logs = <<>>
    /\ sos_events = <<>>
    /\ sos_jobs = <<>>
    /\ cancel_reqs = <<>>
    /\ session_tokens = <<>>
    /\ quick_reqs = <<>>
    /\ NothingIssued
    /\ NothingScheduled
    /\ reply = NoReply

NextDispatch ==
    \/ trigger_sos(1)
    \/ \E e \in 1..MaxSOS : cancel_sos_read(1, e)
    \/ \E r \in 1..MaxCancel : cancel_sos_write(r)
    \/ \E e \in 1..MaxSOS : sos_job_wait(e)
    \/ \E e \in 1..MaxSOS : sos_job_check(e)
    \/ \E e \in 1..MaxSOS : sos_job_fanout(e)
    \/ \E e \in 1..MaxSOS : sos_job_mark(e)

\* a step of the worker on some job
WorkerStep ==
    \E e \in 1..MaxSOS :
        sos_job_wait(e) \/ sos_job_check(e) \/ sos_job_fanout(e) \/ sos_job_mark(e)

\* the worker keeps running while a job is unfinished (no job fails or is
\* lost); every job takes finitely many steps
DispatchFairness == WF_vars(WorkerStep)

SpecDispatch == InitDispatch /\ [][NextDispatch]_vars /\ DispatchFairness

\* ------------------------------------------------------------------ claims
\* cancel_sos returned the event `e` to some request
CancelSucceeded(e) ==
    \E r \in 1..Len(cancel_reqs) :
        cancel_reqs[r].sos_id = e /\ cancel_reqs[r].result = "cancelled"

\* the delayed job of event `e` sent its alerts and returned status "sent"
DispatchSucceeded(e) ==
    e \in 1..Len(sos_jobs) /\ sos_jobs[e].result = "sent"

SOSTerminal == {SOS_STATUS_CANCELLED, SOS_STATUS_SENT}

\* C1: under any interleaving of cancel requests with the delayed dispatch
\* job, a status that is cancelled or sent never changes again, and cancel
\* and dispatch never both succeed on the same event.
C1_SOSExclusive ==
    /\ [](\A e \in 1..Len(sos_events) :
             ~(CancelSucceeded(e) /\ DispatchSucceeded(e)))
    /\ [][\A e \in 1..Len(sos_events) :
             sos_events[e].status \in SOSTerminal
                 => sos_events'[e].status = sos_events[e].status]_vars

\* C2: when cancel returned the event, the job of that event attempts no SOS
\* alert and writes no sos_alert row, whenever the cancel commits.
C2_CancelMeansNoAlert ==
    \A e \in 1..Len(sos_events) :
        CancelSucceeded(e) =>
            /\ sos_jobs[e].attempted = {}
            /\ sos_jobs[e].alerts_sent = 0
            /\ \A i \in 1..Len(notification_logs) :
                   ~(/\ notification_logs[i].type = "sos_alert"
                     /\ notification_logs[i].user_id = sos_events[e].user_id
                     /\ Cardinality({f \in 1..Len(sos_events) :
                            sos_events[f].user_id = sos_events[e].user_id}) = 1)

\* the check_in_logs rows of user `u` in the table `tbl`
LogsOf(tbl, u) == {i \in 1..Len(tbl) : tbl[i].user_id = u}

\* a step in which create_check_in(u, m) ran, called directly or by the router
CreateCheckInStep(u, m) ==
    \/ call_create_check_in(u, m)
    \/ u \in DOMAIN users /\ users[u].is_active /\ perform_checkin(u, m)

\* C7: for an existing user a create_check_in call appends exactly one log
\* row, of that user and with the given method, sets the user's
\* last_check_in to that row's checked_at and returns checked_at plus
\* check_in_cycle days; for a missing user it returns None and neither
\* table changes.
C7_CreateCheckIn ==
    [][LET u == reply'.user_id
           m == reply'.method
       IN (reply'.op = "create_check_in" /\ CreateCheckInStep(u, m)) =>
             IF u \in DOMAIN users
             THEN /\ Len(check_in_logs') = Len(check_in_logs) + 1
                  /\ SubSeq(check_in_logs', 1, Len(check_in_logs)) = check_in_logs
                  /\ Cardinality(LogsOf(check_in_logs', u))
                        = Cardinality(LogsOf(check_in_logs, u)) + 1
                  /\ check_in_logs'[Len(check_in_logs')].method = m
                  /\ check_in_logs'[Len(check_in_logs')].checked_at = now
                  /\ users'[u].last_check_in
                        = check_in_logs'[Len(check_in_logs')].checked_at
                  /\ \A v \in UserIds \ {u} : users'[v] = users[v]
                  /\ reply'.found
                  /\ reply'.checked_at = check_in_logs'[Len(check_in_logs')].checked_at
                  /\ reply'.next_check_in_due
                        = reply'.checked_at + users[u].check_in_cycle * DAY
             ELSE /\ ~reply'.found
                  /\ users' = users
                  /\ check_in_logs' = check_in_logs]_vars

\* a second check-in of a user who chose a 14 day cycle, on a later day,
\* answered with the deadline 14 days after it
C7_Witness ==
    /\ reply.op = "create_check_in"
    /\ reply.found
    /\ now > 0
    /\ users[reply.user_id].check_in_cycle = 14
    /\ Cardinality(LogsOf(check_in_logs, reply.user_id)) = 2
    /\ users[reply.user_id].last_check_in = now
    /\ reply.next_check_in_due = now + 14 * DAY

\* C8: the log row and the last_check_in update of a check-in appear in the
\* same step: whenever a step adds log rows, the user of every new row has
\* last_check_in equal to that row's checked_at after the step, and whenever
\* a step changes a user's last_check_in, it adds a row of that user with
\* that checked_at.
C8_LogAndLastCheckInTogether ==
    [][/\ \A i \in (Len(check_in_logs) + 1)..Len(check_in_logs') :
             users'[check_in_logs'[i].user_id].last_check_in
                 = check_in_logs'[i].checked_at
       /\ \A u \in UserIds :
             users'[u].last_check_in # users[u].last_check_in =>
                \E i \in (Len(check_in_logs) + 1)..Len(check_in_logs') :
                    /\ check_in_logs'[i].user_id = u
                    /\ check_in_logs'[i].checked_at = users'[u].last_check_in
       /\ SubSeq(check_in_logs', 1, Len(check_in_logs)) = check_in_logs]_vars

\* a reader sees a user's second log row, written on a later day than the
\* first, and last_check_in already at that row's checked_at
C8_Witness ==
    \E u \in UserIds :
        /\ Cardinality(LogsOf(check_in_logs, u)) = 2
        /\ \E i, j \in LogsOf(check_in_logs, u) :
              /\ i < j
              /\ check_in_logs[i].checked_at < check_in_logs[j].checked_at
              /\ users[u].last_check_in = check_in_logs[j].checked_at

\* the rows a step appends to notification_logs
NewNotifications ==
    (Len(notification_logs) + 1)..Len(notification_logs')

PastDeadline ==
    {u \in UserIds :
        /\ users[u].is_active
        /\ users[u].last_check_in # NULL
        /\ now > users[u].last_check_in + users[u].check_in_cycle * DAY
                    + users[u].grace_period * HOUR}

\* C5: a run of the missed-check-in sweep writes alert rows only for users
\* who are, when it runs, active, with a last_check_in, and past
\* last_check_in + cycle days + grace hours; processed_users counts exactly
\* those users and alerts_sent the status alerts accepted for them, so any
\* other user adds nothing to either.
C5_SweepOnlyMissed ==
    [][(reply'.op = "check_missed_checkins" /\ check_missed_checkins) =>
          /\ \A i \in NewNotifications :
                /\ notification_logs'[i].user_id \in PastDeadline
                /\ notification_logs'[i].type
                      \in {"status_alert", "personal_message"}
          /\ reply'.processed_users = Cardinality(PastDeadline)
          /\ reply'.alerts_sent =
                Cardinality({i \in NewNotifications :
                    /\ notification_logs'[i].type = "status_alert"
                    /\ notification_logs'[i].status = "sent"
                    /\ notification_logs'[i].user_id \in PastDeadline})
          /\ users' = users]_vars

\* a sweep has just alerted for the one user past the deadline while another
\* active user stands exactly at the deadline and got nothing
C5_Witness ==
    /\ reply.op = "check_missed_checkins"
    /\ reply.timestamp = now
    /\ reply.processed_users = 1
    /\ reply.alerts_sent = 1
    /\ \E u \in UserIds :
          /\ users[u].is_active
          /\ users[u].last_check_in # NULL
          /\ now = MissedDeadline(u)
          /\ \A i \in 1..Len(notification_logs) :
                notification_logs[i].user_id # u

\* C6: the is_overdue of a status answer is false for a user who never
\* checked in, and otherwise true exactly when now is later than
\* last_check_in + cycle days + grace hours; with 7 days and 48 hours it is
\* false at 7d 47h 59m after the check-in and at the deadline instant, and
\* true one second after the deadline.
C6_IsOverdue ==
    reply.op = "get_status" =>
        LET last == reply.last_check_in
        IN /\ last = NULL => ~reply.is_overdue
           /\ last # NULL =>
                 (reply.is_overdue <=>
                     now > last + reply.check_in_cycle * DAY
                               + reply.grace_period * HOUR)
           /\ (last # NULL /\ reply.check_in_cycle = 7
                   /\ reply.grace_period = 48) =>
                 /\ now = last + 7 * DAY + 47 * HOUR + 59 * 60
                       => ~reply.is_overdue
                 /\ now = last + 7 * DAY + 48 * HOUR => ~reply.is_overdue
                 /\ now = last + 7 * DAY + 48 * HOUR + 1 => reply.is_overdue

\* the status of a 7 day / 48 hour user asked one second after the deadline
C6_Witness ==
    /\ reply.op = "get_status"
    /\ reply.last_check_in # NULL
    /\ reply.check_in_cycle = 7
    /\ reply.grace_period = 48
    /\ now = reply.last_check_in + 7 * DAY + 48 * HOUR + 1
    /\ reply.is_overdue

\* the quick check-in requests to which consume gave the user of token t
Consumers(t) ==
    {r \in 1..Len(quick_reqs) :
        quick_reqs[r].token = t /\ quick_reqs[r].user # NULL}

\* C3: of the requests presenting one token, in any interleaving, at most
\* one obtains the owning user and the others get null, and at most one
\* check-in log is appended for the token.
C3_TokenSingleUse ==
    /\ \A t \in 1..Len(session_tokens) :
          /\ Cardinality(Consumers(t)) <= 1
          /\ Cardinality({quick_reqs[r].log_id : r \in Consumers(t)}
                            \ {NULL}) <= 1
          /\ \A r \in Consumers(t) :
                quick_reqs[r].user = session_tokens[t].user_id
    /\ Len(check_in_logs)
          <= Cardinality({t \in 1..Len(session_tokens) :
                             session_tokens[t].used_at # NULL})
    /\ \A i \in 1..Len(check_in_logs) :
          \E r \in 1..Len(quick_reqs) : quick_reqs[r].log_id = i

\* two requests raced with one unexpired token: the first has the user and
\* has not recorded its check-in yet, the second, at the same instant,
\* already got null
C3_Witness ==
    /\ Len(quick_reqs) = 2
    /\ quick_reqs[1].token = quick_reqs[2].token
    /\ quick_reqs[1].token \in 1..Len(session_tokens)
    /\ quick_reqs[1].user # NULL
    /\ quick_reqs[1].pc = "record"
    /\ quick_reqs[2].user = NULL
    /\ quick_reqs[2].at = quick_reqs[1].at
    /\ session_tokens[quick_reqs[1].token].expires_at > now

\* the request a step appends to quick_reqs, that is the consume it ran
ConsumeStep == Len(quick_reqs') = Len(quick_reqs) + 1

\* C9: a token is issued with used_at null and expires_at = now + ttl
\* hours; a consume of a token that is unused and before its expiry returns
\* the owning user and sets used_at to now; a consume of a token whose
\* used_at is set returns null, and a used_at once set never changes.
C9_TokenLifecycle ==
    [][/\ Len(session_tokens') = Len(session_tokens) + 1 =>
             LET row == session_tokens'[Len(session_tokens')]
             IN /\ row.used_at = NULL
                /\ row.expires_at = now + reply'.expires_hours * HOUR
                /\ row.user_id = reply'.user_id
                /\ reply'.token = Len(session_tokens')
       /\ ConsumeStep =>
             LET q == quick_reqs'[Len(quick_reqs')]
                 t == q.token
             IN IF t \notin 1..Len(session_tokens) THEN q.user = NULL
                ELSE IF session_tokens[t].used_at # NULL THEN q.user = NULL
                ELSE IF session_tokens[t].expires_at > now
                THEN /\ q.user = session_tokens[t].user_id
                     /\ session_tokens'[t].used_at = now
                ELSE q.user = NULL
       /\ \A t \in 1..Len(session_tokens) :
             session_tokens[t].used_at # NULL =>
                session_tokens'[t] = session_tokens[t]]_vars

\* a two-hour token was consumed, and an hour later, still before its
\* expiry, a second consume of it got null
C9_Witness ==
    \E q, r \in 1..Len(quick_reqs) :
        /\ q < r
        /\ quick_reqs[q].token = quick_reqs[r].token
        /\ quick_reqs[q].token \in 1..Len(session_tokens)
        /\ quick_reqs[q].user # NULL
        /\ quick_reqs[r].user = NULL
        /\ quick_reqs[r].at > quick_reqs[q].at
        /\ quick_reqs[r].at < session_tokens[quick_reqs[q].token].expires_at
        /\ session_tokens[quick_reqs[q].token].used_at = quick_reqs[q].at

\* C10: no consume at or after a token's expires_at ever returned its user,
\* no used_at is at or after the expires_at, a consume of a token with
\* expires_at <= now returns null and leaves the table alone whether or not
\* used_at is set, and since expires_at never changes and the clock never
\* goes back, such a token stays unacceptable.
C10_ExpiredNeverAccepted ==
    /\ [](/\ \A r \in 1..Len(quick_reqs) :
                quick_reqs[r].user # NULL =>
                   quick_reqs[r].at < session_tokens[quick_reqs[r].token].expires_at
          /\ \A t \in 1..Len(session_tokens) :
                session_tokens[t].used_at # NULL =>
                   session_tokens[t].used_at < session_tokens[t].expires_at)
    /\ [][/\ now' >= now
          /\ \A t \in 1..Len(session_tokens) :
                session_tokens'[t].expires_at = session_tokens[t].expires_at
          /\ ConsumeStep =>
                LET q == quick_reqs'[Len(quick_reqs')]
                IN (/\ q.token \in 1..Len(session_tokens)
                    /\ session_tokens[q.token].expires_at <= now)
                   => (q.user = NULL /\ session_tokens' = session_tokens)]_vars

\* an unused one-hour token was presented at the very instant it expired
\* and refused
C10_Witness ==
    \E r \in 1..Len(quick_reqs) :
        /\ quick_reqs[r].token \in 1..Len(session_tokens)
        /\ quick_reqs[r].at = session_tokens[quick_reqs[r].token].expires_at
        /\ quick_reqs[r].user = NULL
        /\ session_tokens[quick_reqs[r].token].used_at = NULL

\* C11: a quick check-in whose token was valid (consume gave its owner)
\* appends exactly one log, of the owner and with method push_response,
\* sets the owner's last_check_in to that log's checked_at, answers 200
\* with success, and the token's used_at is set; no credential other than
\* the token is presented.
C11_QuickCheckInSucceeds ==
    /\ [](\A r \in 1..Len(quick_reqs) :
             (quick_reqs[r].user # NULL /\ quick_reqs[r].pc = "done") =>
                LET t == quick_reqs[r].token
                    l == quick_reqs[r].log_id
                IN /\ quick_reqs[r].success /\ quick_reqs[r].http = 200
                   /\ l \in 1..Len(check_in_logs)
                   /\ check_in_logs[l].user_id = session_tokens[t].user_id
                   /\ check_in_logs[l].method = "push_response"
                   /\ session_tokens[t].used_at = quick_reqs[r].at
                   /\ \A q \in 1..Len(quick_reqs) :
                         quick_reqs[q].log_id = l => q = r)
    /\ [][\A r \in 1..Len(quick_reqs) :
             (quick_reqs[r].pc = "record" /\ quick_reqs'[r].pc = "done") =>
                LET owner == session_tokens[quick_reqs[r].token].user_id
                IN /\ Len(check_in_logs') = Len(check_in_logs) + 1
                   /\ SubSeq(check_in_logs', 1, Len(check_in_logs))
                         = check_in_logs
                   /\ check_in_logs'[Len(check_in_logs')].user_id = owner
                   /\ users'[owner].last_check_in
                         = check_in_logs'[Len(check_in_logs')].checked_at
                   /\ users'[owner].last_check_in = now]_vars

\* a quick check-in with a fresh token went through, an hour after the
\* token was issued with two hours to live
C11_Witness ==
    \E r \in 1..Len(quick_reqs) :
        /\ quick_reqs[r].success
        /\ quick_reqs[r].at > 0
        /\ check_in_logs[quick_reqs[r].log_id].method = "push_response"
        /\ users[quick_reqs[r].user].last_check_in
              = check_in_logs[quick_reqs[r].log_id].checked_at
        /\ session_tokens[quick_reqs[r].token].used_at = quick_reqs[r].at

\* the token string t is unknown, expired or already used
BadToken(t) ==
    \/ t \notin 1..Len(session_tokens)
    \/ session_tokens[t].expires_at <= now
    \/ session_tokens[t].used_at # NULL

\* C12: a quick check-in with an unknown, expired or used token gets null:
\* it is answered at once with 200 and success false, and the step changes
\* no user, no check-in log and no token; such a request never gets a log.
C12_QuickCheckInBadToken ==
    /\ [](\A r \in 1..Len(quick_reqs) :
             quick_reqs[r].user = NULL =>
                /\ quick_reqs[r].pc = "done"
                /\ quick_reqs[r].http = 200
                /\ ~quick_reqs[r].success
                /\ quick_reqs[r].log_id = NULL)
    /\ [][(ConsumeStep /\ BadToken(quick_reqs'[Len(quick_reqs')].token)) =>
             /\ quick_reqs'[Len(quick_reqs')].user = NULL
             /\ users' = users
             /\ check_in_logs' = check_in_logs
             /\ session_tokens' = session_tokens]_vars

\* two refused requests: one with a token string nobody issued, one with an
\* unused token presented at or after its expiry
C12_Witness ==
    \E q, r \in 1..Len(quick_reqs) :
        /\ quick_reqs[q].token \notin 1..Len(session_tokens)
        /\ quick_reqs[r].token \in 1..Len(session_tokens)
        /\ session_tokens[quick_reqs[r].token].used_at = NULL
        /\ quick_reqs[r].at >= session_tokens[quick_reqs[r].token].expires_at
        /\ ~quick_reqs[q].success /\ ~quick_reqs[r].success
        /\ check_in_logs = <<>>

C14_ActiveContacts ==
    reply.op = "get_active_contacts" =>
        LET res == reply.result
            u == reply.user_id
        IN /\ {res[i] : i \in 1..Len(res)} =
                 {c \in DOMAIN contacts :
                     /\ contacts[c].user_id = u
                     /\ contacts[c].status = "approved"
                     /\ contacts[c].is_verified}
           /\ \A i, j \in 1..Len(res) :
                 /\ i < j => contacts[res[i]].priority <= contacts[res[j]].priority
                 /\ i # j => res[i] # res[j]
           /\ \A i \in 1..Len(res) : contacts[res[i]].user_id = u

\* a user with an approved, verified contact of priority 2 and an approved
\* but unverified one of priority 1 is answered with the former alone
C14_Witness ==
    /\ reply.op = "get_active_contacts"
    /\ Len(reply.result) = 1
    /\ contacts[reply.result[1]].priority = 2
    /\ \E c \in DOMAIN contacts :
          /\ contacts[c].user_id = reply.user_id
          /\ contacts[c].status = "approved"
          /\ ~contacts[c].is_verified
          /\ contacts[c].priority = 1

\* the consent tokens that were drawn and are on no row any more
SpentConsentTokens ==
    {t \in 1..issued.consent_tokens :
        \A c \in DOMAIN contacts : contacts[c].consent_token # t}

\* C15: a process_consent whose token resolves sets the contact's status to
\* approved or rejected as asked, sets consent_responded_at to now, clears
\* consent_token and, on approval, sets is_verified; from then on the token
\* stays off every row, and a process_consent with a token that is on no row
\* returns None and changes nothing, whether it approves or rejects.
C15_ProcessConsent ==
    [][/\ SpentConsentTokens \subseteq SpentConsentTokens'
       /\ (/\ reply'.op = "process_consent"
           /\ process_consent(reply'.token, reply'.approved)) =>
                LET c == reply'.result
                    t == reply'.token
                    a == reply'.approved
                IN /\ (t \in SpentConsentTokens) =>
                         (c = NULL /\ contacts' = contacts)
                   /\ (c # NULL) =>
                         /\ contacts[c].consent_token = t
                         /\ contacts'[c].status =
                               (IF a THEN "approved" ELSE "rejected")
                         /\ contacts'[c].consent_responded_at = now
                         /\ contacts'[c].consent_token = NULL
                         /\ a => contacts'[c].is_verified
                         /\ t \in SpentConsentTokens'
                         /\ \A d \in DOMAIN contacts \ {c} :
                               contacts'[d] = contacts[d]]_vars

\* the only token drawn was answered with a rejection, and a later
\* process_consent approving with the same token has returned None
C15_Witness ==
    /\ reply.op = "process_consent"
    /\ reply.token = 1
    /\ reply.approved
    /\ reply.result = NULL
    /\ issued.consent_tokens = 1
    /\ \E c \in DOMAIN contacts :
          /\ contacts[c].status = CONSENT_STATUS_REJECTED
          /\ contacts[c].consent_responded_at # NULL
          /\ contacts[c].consent_token = NULL
          /\ ~contacts[c].is_verified

\* the token is on no row, or on a row whose consent_expires_at is not
\* later than now
UnknownOrExpired(t) ==
    \A c \in DOMAIN contacts :
        contacts[c].consent_token = t => contacts[c].consent_expires_at <= now

\* C16: get_contact_by_consent_token and process_consent return None for a
\* token that is on no row and for one whose consent_expires_at is not later
\* than now, and process_consent then changes nothing; a contact goes from
\* pending to approved or rejected only before the 7 days since its
\* request_consent are over.
C16_ExpiredTokenRefused ==
    [][/\ (/\ reply'.op = "get_contact_by_consent_token"
           /\ call_get_contact_by_consent_token(reply'.token)
           /\ UnknownOrExpired(reply'.token)) => reply'.result = NULL
       /\ (/\ reply'.op = "process_consent"
           /\ process_consent(reply'.token, reply'.approved)
           /\ UnknownOrExpired(reply'.token)) =>
              (reply'.result = NULL /\ contacts' = contacts)
       /\ \A c \in DOMAIN contacts :
             (/\ contacts[c].status = CONSENT_STATUS_PENDING
              /\ contacts'[c].status \in
                    {CONSENT_STATUS_APPROVED, CONSENT_STATUS_REJECTED}) =>
                /\ contacts[c].consent_requested_at # NULL
                /\ now < contacts[c].consent_requested_at
                            + CONSENT_TOKEN_VALIDITY_DAYS * DAY]_vars

\* process_consent was called with the token of a pending contact at the
\* very instant the token expires, and returned None
C16_Witness ==
    /\ reply.op = "process_consent"
    /\ reply.result = NULL
    /\ \E c \in DOMAIN contacts :
          /\ contacts[c].consent_token = reply.token
          /\ contacts[c].consent_expires_at = now
          /\ contacts[c].status = CONSENT_STATUS_PENDING

\* what request_consent leaves on contact c: pending, a token drawn in this
\* step, seven days to answer and no answer
JustRequested(c) ==
    /\ contacts'[c].status = CONSENT_STATUS_PENDING
    /\ contacts'[c].consent_token = issued'.consent_tokens
    /\ issued'.consent_tokens > issued.consent_tokens
    /\ \A d \in DOMAIN contacts : contacts[d].consent_token # contacts'[c].consent_token
    /\ contacts'[c].consent_expires_at = now + CONSENT_TOKEN_VALIDITY_DAYS * DAY
    /\ contacts'[c].consent_responded_at = NULL

\* C17: a contact's status changes only from pending to approved or rejected,
\* from pending to expired when its consent_expires_at is earlier than now,
\* or to pending through request_consent; approved, rejected and expired
\* change through request_consent alone, and every request_consent that finds
\* its contact leaves it pending with a fresh token, consent_expires_at seven
\* days from now and no consent_responded_at.
C17_StatusTransitions ==
    [][/\ \A c \in DOMAIN contacts :
             contacts'[c].status # contacts[c].status =>
                \/ /\ contacts[c].status = CONSENT_STATUS_PENDING
                   /\ contacts'[c].status \in
                         {CONSENT_STATUS_APPROVED, CONSENT_STATUS_REJECTED}
                \/ /\ contacts[c].status = CONSENT_STATUS_PENDING
                   /\ contacts'[c].status = CONSENT_STATUS_EXPIRED
                   /\ contacts[c].consent_expires_at # NULL
                   /\ contacts[c].consent_expires_at < now
                \/ /\ reply'.op = "request_consent"
                   /\ reply'.result = c
                   /\ JustRequested(c)
       /\ (issued'.consent_tokens # issued.consent_tokens) =>
             /\ reply'.op = "request_consent"
             /\ reply'.result \in DOMAIN contacts
             /\ JustRequested(reply'.result)]_vars

\* a contact whose first request ran out and was marked expired has been
\* asked again and is pending with the second token
C17_Witness ==
    /\ reply.op = "request_consent"
    /\ reply.result = 1
    /\ contacts[1].status = CONSENT_STATUS_PENDING
    /\ contacts[1].consent_token = 2
    /\ contacts[1].consent_requested_at > CONSENT_TOKEN_VALIDITY_DAYS * DAY
    /\ contacts[1].consent_responded_at = NULL
    /\ contacts[2].consent_requested_at = NULL

\* C18: no user ever owns more than MAX_CONTACTS contacts, whatever creates
\* and deletes are made and however the creates of one user interleave; a
\* create made when the user has MAX_CONTACTS is answered 400 CONTACT001 and
\* adds nothing.
C18_AtMostThreeContacts ==
    /\ [](\A u \in UserIds : get_contact_count(contacts, u) <= MAX_CONTACTS)
    /\ [][\A u \in UserIds, p \in 1..MAX_CONTACTS :
             (/\ get_contact_count(contacts, u) >= MAX_CONTACTS
              /\ create_new_contact_check(u, p)) =>
                /\ reply'.op = "create_new_contact"
                /\ reply'.http = 400
                /\ reply'.code = "CONTACT001"
                /\ contacts' = contacts
                /\ contact_reqs' = contact_reqs]_vars

\* C19: after a DELETE answered 204 the contacts the user has left hold the
\* priorities 1..n, each once, and two of them that had different priorities
\* before are still in that order.
C19_PrioritiesAfterDelete ==
    [][(/\ reply'.op = "delete_existing_contact"
        /\ reply'.http = 204
        /\ DOMAIN contacts' # DOMAIN contacts) =>
          LET S == ContactsOf(contacts', reply'.user_id)
          IN /\ {contacts'[c].priority : c \in S} = 1..Cardinality(S)
             /\ \A a, b \in S :
                   contacts[a].priority < contacts[b].priority =>
                      contacts'[a].priority < contacts'[b].priority]_vars

\* user 1 had the contacts 1, 2 and 3; the second one, of priority 2, was
\* deleted and the other two now hold priorities 1 and 2
C19_Witness ==
    /\ reply.op = "delete_existing_contact"
    /\ reply.http = 204
    /\ reply.user_id = 1
    /\ ContactsOf(contacts, 1) = {1, 3}
    /\ contacts[1].priority = 1
    /\ contacts[3].priority = 2

\* C20: is_in_quiet_hours is false when either end of the range is unset;
\* for start <= end it is true exactly when start <= t <= end; for start >
\* end it is true exactly when t >= start or t <= end; so with 22:00 to 08:00
\* the times 23:00 and 07:00 are quiet and 12:00, 21:59 and 08:01 are not.
C20_QuietHours ==
    reply.op = "is_in_quiet_hours" =>
        LET start == reply.start
            end == reply.end
            t == reply.current_time
        IN /\ (start = NULL \/ end = NULL) => ~reply.result
           /\ (start # NULL /\ end # NULL /\ start <= end) =>
                 (reply.result <=> (start <= t /\ t <= end))
           /\ (start # NULL /\ end # NULL /\ start > end) =>
                 (reply.result <=> (t >= start \/ t <= end))
           /\ (start = 22 * HOUR /\ end = 8 * HOUR) =>
                 /\ t \in {23 * HOUR, 7 * HOUR} => reply.result
                 /\ t \in {12 * HOUR, 22 * HOUR - 60, 8 * HOUR + 60}
                       => ~reply.result

\* with quiet hours from 22:00 to 08:00, 08:00 itself has been found quiet
C20_Witness ==
    /\ reply.op = "is_in_quiet_hours"
    /\ reply.start = 22 * HOUR
    /\ reply.end = 8 * HOUR
    /\ reply.current_time = 8 * HOUR
    /\ reply.result

\* C21: should_send_reminder returns false when push is disabled or the
\* current time is in quiet hours; otherwise it returns true exactly when the
\* hours until the deadline are within 3 of at least one configured
\* threshold, and then it returns the user's custom message with it. With the
\* thresholds [48, 24, 12] it is true at 25 and false at 30.
C21_ShouldRemindWithinThreeHours ==
    [][reply'.op = "should_send_reminder" =>
          LET row == reminder_settings'[reply'.user_id]
              h == reply'.hours_until_deadline
              hit == \E i \in DOMAIN row.reminder_hours_before :
                         h - row.reminder_hours_before[i] \in (0 - 3)..3
              blocked == ~row.push_enabled \/ is_in_quiet_hours(row, NULL)
          IN /\ row = SettingsBefore(reply'.user_id)
             /\ blocked => reply'.result[1] = FALSE
             /\ ~blocked => (reply'.result[1] = TRUE <=> hit)
             /\ reply'.result[1] = TRUE =>
                    reply'.result[2] = row.custom_message
             /\ (~blocked /\ row.reminder_hours_before = <<48, 24, 12>>) =>
                    /\ h = 25 => reply'.result[1] = TRUE
                    /\ h = 30 => reply'.result[1] = FALSE]_vars

\* a reminder is due at 25 hours and comes with the user's own message
C21_Witness ==
    /\ reply.op = "should_send_reminder"
    /\ reply.hours_until_deadline = 25
    /\ reply.result = <<TRUE, <<"h", "i">>>>
    /\ reminder_settings[reply.user_id].reminder_hours_before = <<48, 24, 12>>

\* C22 (as stated): update_reminder_settings changes only the fields the
\* request gives and leaves the others, and the rows of other users, as they
\* were; when reminder_hours_before is given the stored list is exactly the
\* entries within [1,168] sorted descending; custom_message is cut to at most
\* 100 characters.
C22_StoresExactlyTheSurvivors ==
    [][reply'.op = "update_reminder_settings" =>
          LET before == SettingsBefore(reply'.user_id)
              after == reminder_settings'[reply'.user_id]
              data == reply'.data
          IN /\ \A f \in DOMAIN after \ DOMAIN data : after[f] = before[f]
             /\ \A u \in DOMAIN reminder_settings \ {reply'.user_id} :
                    reminder_settings'[u] = reminder_settings[u]
             /\ "reminder_hours_before" \in DOMAIN data =>
                    IsSurvivorsDescending(after.reminder_hours_before,
                                          data.reminder_hours_before)
             /\ "custom_message" \in DOMAIN data =>
                    \/ after.custom_message = NoMessage
                    \/ /\ Len(after.custom_message) <= 100
                       /\ Len(after.custom_message) <= Len(data.custom_message)
                       /\ after.custom_message =
                              SubSeq(data.custom_message, 1,
                                     Len(after.custom_message))]_vars

\* C22 (amended): update_reminder_settings changes only the fields the
\* request gives and leaves the others, and the rows of other users, as they
\* were; when reminder_hours_before is given and at least one entry lies
\* within [1,168], the stored list is exactly the entries within [1,168]
\* sorted descending, and when no entry does the stored list is left as it
\* was; custom_message is cut to at most 100 characters, an empty one
\* clearing the stored message.
C22_KeepsTheListWhenNoneSurvives ==
    [][reply'.op = "update_reminder_settings" =>
          LET before == SettingsBefore(reply'.user_id)
              after == reminder_settings'[reply'.user_id]
              data == reply'.data
          IN /\ \A f \in DOMAIN after \ DOMAIN data : after[f] = before[f]
             /\ \A u \in DOMAIN reminder_settings \ {reply'.user_id} :
                    reminder_settings'[u] = reminder_settings[u]
             /\ "reminder_hours_before" \in DOMAIN data =>
                    IF \E i \in DOMAIN data.reminder_hours_before :
                          data.reminder_hours_before[i] \in 1..168
                    THEN IsSurvivorsDescending(after.reminder_hours_before,
                                               data.reminder_hours_before)
                    ELSE after.reminder_hours_before =
                             before.reminder_hours_before
             /\ "custom_message" \in DOMAIN data =>
                    IF data.custom_message = <<>>
                    THEN after.custom_message = NoMessage
                    ELSE /\ Len(after.custom_message) <= 100
                         /\ Len(after.custom_message)
                                = IF Len(data.custom_message) < 100
                                  THEN Len(data.custom_message) ELSE 100
                         /\ after.custom_message =
                                SubSeq(data.custom_message, 1,
                                       Len(after.custom_message))]_vars

\* a request whose hours are all out of range has left a list stored by an
\* earlier request, with its repeated 24, in place
C22_Witness ==
    /\ reply.op = "update_reminder_settings"
    /\ "reminder_hours_before" \in DOMAIN reply.data
    /\ reply.data.reminder_hours_before = <<0, 200>>
    /\ reminder_settings[reply.user_id].reminder_hours_before = <<168, 24, 24>>

\* C23: for each active user with a push destination and a last check-in,
\* with push enabled and outside quiet hours, the reminder sweep sends the
\* urgent reminder exactly when now lies between the cycle deadline and the
\* full deadline; otherwise, whenever now is before the cycle deadline, it
\* consults should_send_reminder with the hours until the deadline and sends
\* the normal reminder, with days_remaining = hours // 24, exactly when that
\* returns true. A user with push disabled or in quiet hours gets no
\* reminder, and no token is minted for them.
C23_ReminderSweep ==
    [][reply'.op = "send_reminder_notifications" =>
          \A u \in ReminderUsers :
             LET row == SettingsBefore(u)
                 blocked == ~row.push_enabled \/ is_in_quiet_hours(row, NULL)
                 in_grace == now > cycle_deadline(u) /\ now < full_deadline(u)
                 sent == reply'.reminders[u]
                 minted == {t \in (Len(session_tokens) + 1)
                                       ..Len(session_tokens') :
                               session_tokens'[t].user_id = u}
             IN /\ blocked => sent.kind = "none" /\ minted = {}
                /\ ~blocked => (sent.kind = "urgent" <=> in_grace)
                /\ (~blocked /\ ~in_grace /\ now < cycle_deadline(u)) =>
                      /\ sent.kind = "normal" <=>
                            should_send_reminder(
                                row, hours_until_deadline(u))[1]
                      /\ sent.kind = "normal" =>
                            sent.days_remaining
                                = hours_until_deadline(u) \div 24]_vars

\* the approved and verified contacts of user u
ConsentedContacts(u) ==
    {c \in DOMAIN contacts : /\ contacts[c].user_id = u
                             /\ contacts[c].status = CONSENT_STATUS_APPROVED
                             /\ contacts[c].is_verified}

\* the rows a step appends for contact c that are status alerts
NewStatusAlerts(c) ==
    {i \in NewNotifications : /\ notification_logs'[i].contact_id = c
                              /\ notification_logs'[i].type = "status_alert"}

\* C24: for an overdue active user, one run of the missed-check-in sweep
\* sends exactly one status alert to each approved and verified email
\* contact and appends exactly one status_alert row per such contact, with
\* status sent or failed; an approved and verified sms contact is skipped:
\* nothing is sent to it and no row is logged for it.
C24_OneAlertPerEmailContact ==
    [][(reply'.op = "check_missed_checkins" /\ check_missed_checkins) =>
          \A u \in PastDeadline : \A c \in ConsentedContacts(u) :
             IF contacts[c].contact_type = "email"
             THEN /\ Cardinality(NewStatusAlerts(c)) = 1
                  /\ \A i \in NewStatusAlerts(c) :
                        /\ notification_logs'[i].user_id = u
                        /\ notification_logs'[i].status \in {"sent", "failed"}
             ELSE \A i \in NewNotifications :
                     notification_logs'[i].contact_id # c]_vars

\* a run has alerted both email contacts of the overdue user 1, one mail
\* accepted and one refused, and has logged nothing for the sms contact
C24_Witness ==
    /\ reply.op = "check_missed_checkins"
    /\ 1 \in PastDeadline
    /\ \E i, j \in 1..Len(notification_logs) :
          /\ notification_logs[i].contact_id = 1
          /\ notification_logs[i].status = "sent"
          /\ notification_logs[j].contact_id = 2
          /\ notification_logs[j].status = "failed"
    /\ contacts[3].contact_type = "sms"
    /\ 3 \in ConsentedContacts(1)
    /\ \A i \in 1..Len(notification_logs) :
          notification_logs[i].contact_id # 3

\* C25: for every overdue active user who has an email contact with
\* is_verified = true and the consent status left at its creation default
\* (pending), check_missed_checkins counts the user in processed_users and
\* calls send_status_alert for that contact, which logs a status_alert row.
C25_AlertsVerifiedPendingContact ==
    [][(reply'.op = "check_missed_checkins" /\ check_missed_checkins) =>
          \A u \in PastDeadline : \A c \in DOMAIN contacts :
             (/\ contacts[c].user_id = u
              /\ contacts[c].contact_type = "email"
              /\ contacts[c].is_verified
              /\ contacts[c].status = CONSENT_STATUS_PENDING) =>
                /\ reply'.processed_users = Cardinality(PastDeadline)
                /\ NewStatusAlerts(c) # {}]_vars

\* C26: during a fan-out a failed delivery to one contact is logged as a
\* row with status failed and an error message, and the fan-out still
\* attempts every remaining eligible contact of that user and every
\* remaining overdue user in the same run.
C26_FailureDoesNotAbortFanOut ==
    [][(reply'.op = "check_missed_checkins" /\ check_missed_checkins) =>
          /\ \A i \in NewNotifications :
                notification_logs'[i].status = "failed" =>
                   /\ notification_logs'[i].has_error
                   /\ notification_logs'[i].sent_at = NULL
          /\ (\E i \in NewNotifications :
                 notification_logs'[i].status = "failed") =>
                \A u \in PastDeadline : \A c \in ConsentedContacts(u) :
                   contacts[c].contact_type = "email" =>
                      \E j \in NewStatusAlerts(c) :
                         notification_logs'[j].user_id = u]_vars

\* the mail to the first contact was refused, and the same run went on to
\* the user's next contact and to the next overdue user
C26_Witness ==
    /\ reply.op = "check_missed_checkins"
    /\ Len(notification_logs) >= 3
    /\ notification_logs[1].status = "failed"
    /\ notification_logs[1].has_error
    /\ \E j, k \in 2..Len(notification_logs) :
          /\ notification_logs[j].user_id = notification_logs[1].user_id
          /\ notification_logs[j].contact_id # notification_logs[1].contact_id
          /\ notification_logs[k].user_id # notification_logs[1].user_id
          /\ notification_logs[j].sent_at = notification_logs[k].sent_at
          /\ notification_logs[j].sent_at = now

\* C27: a user who stays overdue across consecutive runs of the
\* missed-check-in sweep is alerted again on every run: a run sends a status
\* alert to every approved and verified email contact of an overdue user
\* also when an earlier run has already alerted that contact.
C27_AlertedAgainOnEveryRun ==
    [][(reply'.op = "check_missed_checkins" /\ check_missed_checkins) =>
          \A u \in PastDeadline : \A c \in ConsentedContacts(u) :
             (/\ contacts[c].contact_type = "email"
              /\ \E i \in 1..Len(notification_logs) :
                    /\ notification_logs[i].contact_id = c
                    /\ notification_logs[i].type = "status_alert") =>
                NewStatusAlerts(c) # {}]_vars

\* two runs 12 hours apart have each mailed the contact of a user who has
\* not checked in in between
C27_Witness ==
    /\ reply.op = "check_missed_checkins"
    /\ Len(notification_logs) = 2
    /\ notification_logs[1].contact_id = notification_logs[2].contact_id
    /\ notification_logs[1].type = "status_alert"
    /\ notification_logs[2].type = "status_alert"
    /\ notification_logs[1].status = "sent"
    /\ notification_logs[2].status = "sent"
    /\ notification_logs[2].sent_at = notification_logs[1].sent_at + 12 * HOUR
    /\ users[notification_logs[1].user_id].last_check_in
          < notification_logs[1].sent_at

C29_CleanupDeletesOnlyStaleTokens ==
    [][reply'.op = "cleanup_expired_session_tokens"
         /\ cleanup_expired_session_tokens =>
          LET stored == {t \in DOMAIN session_tokens :
                            session_tokens[t] # DeletedToken}
              stale == {t \in stored :
                           \/ session_tokens[t].expires_at < now
                           \/ /\ session_tokens[t].used_at # NULL
                              /\ session_tokens[t].used_at < now - 24 * HOUR}
          IN /\ DOMAIN session_tokens' = DOMAIN session_tokens
             /\ \A t \in stale : session_tokens'[t] = DeletedToken
             /\ \A t \in DOMAIN session_tokens \ stale :
                   session_tokens'[t] = session_tokens[t]
             /\ reply'.tokens_deleted = Cardinality(stale)
             /\ \A t \in stored :
                   (/\ session_tokens[t].used_at = NULL
                    /\ session_tokens[t].expires_at > now) => t \notin stale
             /\ \A t \in 1..(MaxTokens + 1) :
                   /\ TokenIsValid(t) <=> TokenIsValid(t)'
                   /\ ConsumeResult(t) = ConsumeResult(t)']_vars

\* a run has deleted an expired token and kept an unexpired, unused one,
\* which a later consume then accepted
C29_Witness ==
    /\ \E t \in DOMAIN session_tokens : session_tokens[t] = DeletedToken
    /\ \E r \in DOMAIN quick_reqs :
          /\ quick_reqs[r].user # NULL
          /\ session_tokens[quick_reqs[r].token].used_at = quick_reqs[r].at
          /\ reply.op = "cleanup_expired_session_tokens"
          /\ reply.tokens_deleted = 1

\* the requests beat has sent for `task` with an eta in the day before now
SentInLastDay(task) ==
    {i \in DOMAIN task_requests : /\ task_requests[i].task = task
                                  /\ task_requests[i].eta >= now - DAY
                                  /\ task_requests[i].eta < now}

\* C30: the periodic scheduler runs the missed-check-in sweep twice daily,
\* the reminder sweep every 6 hours and the token cleanup daily, so every
\* session token that has expired is deleted by a cleanup run: once beat has
\* run for a day, the day before now has seen two missed-check-in sweeps,
\* four reminder sweeps and a token cleanup, and no token that expired more
\* than a day ago is still stored.
C30_BeatRunsCleanupDaily ==
    now >= BeatStart + DAY =>
       /\ Cardinality(SentInLastDay("check_missed_checkins")) = 2
       /\ Cardinality(SentInLastDay("send_reminder_notifications")) = 4
       /\ Cardinality(SentInLastDay("cleanup_expired_session_tokens")) >= 1
       /\ \A t \in DOMAIN session_tokens :
             session_tokens[t] # DeletedToken =>
                session_tokens[t].expires_at >= now - DAY

\* C31: last_check_in changes only in a successful check-in (the check-in
\* endpoint or a quick check-in), and check-in log rows are only appended:
\* every step keeps the rows already logged, a step that changes a user's
\* last_check_in or the log is a check-in that appends one row for that
\* user stamped with the current time and sets that user's last_check_in to
\* it, and settings and reminder-settings updates, contact and consent
\* operations, SOS trigger, cancel and dispatch, the sweeps and the soft
\* delete leave both as they were.
C31_OnlyCheckInsMoveLastCheckIn ==
    [][LET n == Len(check_in_logs)
           moved == {u \in DOMAIN users :
                        users'[u].last_check_in # users[u].last_check_in}
       IN /\ DOMAIN users' = DOMAIN users
          /\ Len(check_in_logs') >= n
          /\ SubSeq(check_in_logs', 1, n) = check_in_logs
          /\ (moved # {} \/ check_in_logs' # check_in_logs) =>
                /\ Len(check_in_logs') = n + 1
                /\ check_in_logs'[n + 1].checked_at = now
                /\ moved \subseteq {check_in_logs'[n + 1].user_id}
                /\ users'[check_in_logs'[n + 1].user_id].last_check_in = now
                /\ \/ reply'.op = "create_check_in" /\ reply'.found
                   \/ \E r \in DOMAIN quick_reqs :
                         /\ quick_reqs[r].pc = "record"
                         /\ quick_reqs'[r].success
          /\ (/\ reply' # reply
              /\ reply'.op \in {"update_settings", "update_reminder_settings",
                                "delete_user", "check_missed_checkins",
                                "send_reminder_notifications",
                                "cleanup_expired_session_tokens"}) =>
                /\ check_in_logs' = check_in_logs
                /\ moved = {}]_vars

\* a check-in has been logged and, after it, settings were updated with the
\* check-in's time still the user's last_check_in
C31_Witness ==
    /\ reply.op = "update_settings"
    /\ Len(check_in_logs) = 2
    /\ users[1].check_in_cycle = 14
    /\ users[1].last_check_in = check_in_logs[2].checked_at
    /\ users[1].last_check_in # FrameLast

\* C32: after a successful check-in at t of a user with cycle c and grace
\* period g, at every time up to and including t + c days + g hours the
\* status query reports is_overdue false and the missed-check-in sweep
\* writes no alert for that user, whether or not the user was overdue or
\* alerted before the check-in (c and g being the settings when the status
\* is asked or the sweep runs).
C32_CheckInResetsDeadline ==
    [][\A u \in UserIds :
          (/\ now' = now
           /\ users' = users
           /\ \E i \in LogsOf(check_in_logs, u) :
                 now <= check_in_logs[i].checked_at
                           + users[u].check_in_cycle * DAY
                           + users[u].grace_period * HOUR) =>
             /\ \A i \in NewNotifications : notification_logs'[i].user_id # u
             /\ (reply'.op = "get_status" /\ reply'.user_id = u) =>
                   ~reply'.is_overdue]_vars

\* user 1 was overdue and alerted, checked in, and a sweep has run exactly
\* at the new deadline without alerting the user again
C32_Witness ==
    /\ reply.op = "check_missed_checkins"
    /\ reply.timestamp = now
    /\ \E i \in LogsOf(check_in_logs, 1) :
          /\ now = check_in_logs[i].checked_at + DeadlineAfter(7, 48)
          /\ users[1].last_check_in = check_in_logs[i].checked_at
          /\ users[1].check_in_cycle = 7
          /\ \E j \in LogsOf(notification_logs, 1) :
                /\ notification_logs[j].type = "status_alert"
                /\ notification_logs[j].sent_at # NULL
                /\ notification_logs[j].sent_at <= check_in_logs[i].checked_at
          /\ \A j \in LogsOf(notification_logs, 1) :
                notification_logs[j].sent_at # now

\* C35: the remaining time of a status is (null, null) when the user has no
\* deadline and (0, 0) whenever now is at or past the cycle deadline;
\* otherwise it is d days and h hours with d >= 0, h in 0..23 and 24 d + h
\* the whole hours left to the deadline. At the cycle deadline exactly the
\* status has remaining (0, 0) and is_overdue false.
C35_RemainingTime ==
    reply.op = "get_status" =>
       LET u == users[reply.user_id]
           due == reply.next_check_in_due
           d == reply.days_remaining
           h == reply.hours_remaining
       IN /\ u.last_check_in = NULL => due = NULL /\ d = NULL /\ h = NULL
          /\ u.last_check_in # NULL =>
                /\ due = u.last_check_in + u.check_in_cycle * DAY
                /\ now >= due => d = 0 /\ h = 0
                /\ now < due => /\ d >= 0
                                /\ h \in 0..23
                                /\ 24 * d + h = (due - now) \div HOUR
                /\ now = due => ~reply.is_overdue

\* a status asked at the cycle deadline to the second
C35_Witness ==
    /\ reply.op = "get_status"
    /\ reply.next_check_in_due = now
    /\ reply.days_remaining = 0
    /\ reply.hours_remaining = 0
    /\ ~reply.is_overdue

\* C36: a check-in request of an authenticated account that is inactive
\* (soft-deleted) is answered 403 before create_check_in runs: no check-in
\* log row is appended and no last_check_in changes.
C36_InactiveCheckInRejected ==
    [][\A u \in UserIds, m \in Methods :
          (/\ u \in DOMAIN users
           /\ ~users[u].is_active
           /\ perform_checkin(u, m)) =>
             /\ reply'.op = "perform_checkin"
             /\ reply'.user_id = u
             /\ reply'.http = 403
             /\ check_in_logs' = check_in_logs
             /\ users' = users]_vars

\* user 1, with one check-in logged, deleted the account and was then
\* refused a check-in: the log and last_check_in are as before
C36_Witness ==
    /\ reply.op = "perform_checkin"
    /\ reply.user_id = 1
    /\ reply.http = 403
    /\ ~users[1].is_active
    /\ LogsOf(check_in_logs, 1) = {1}
    /\ users[1].last_check_in = FrameLast
    /\ check_in_logs[1].checked_at = FrameLast

\* C37: for every user at every instant at most one of the three
\* notification conditions holds: the reminder sweep sends the normal
\* reminder only before the cycle deadline and the urgent one only strictly
\* between the cycle deadline and the cycle-plus-grace deadline, and the
\* missed-check-in sweep alerts only strictly after the cycle-plus-grace
\* deadline; so no user is sent a reminder (with its session token, valid
\* for an hour) and a contact alert by sweeps run at the same instant.
C37_OneNotificationCondition ==
    /\ \A u \in ReminderUsers :
          LET kind == ReminderFor(u, SettingsFor(reminder_settings, {u})[u]).kind
              alert == u \in SweepUsers /\ HasMissed(u)
          IN /\ kind = "normal" => now < cycle_deadline(u)
             /\ kind = "urgent" =>
                   now > cycle_deadline(u) /\ now < full_deadline(u)
             /\ alert => now > full_deadline(u)
             /\ ~(kind # "none" /\ alert)
    /\ \A i \in DOMAIN notification_logs, t \in DOMAIN session_tokens :
          ~(/\ notification_logs[i].type = "status_alert"
            /\ notification_logs[i].status = "sent"
            /\ session_tokens[t].user_id = notification_logs[i].user_id
            /\ session_tokens[t].expires_at
                  = notification_logs[i].sent_at + DEFAULT_EXPIRES_HOURS * HOUR)

\* the user got the urgent reminder a second before the full deadline and,
\* once the clock had moved past it, the contact alert
C37_Witness ==
    /\ \E t \in DOMAIN session_tokens :
          /\ session_tokens[t].user_id = 1
          /\ session_tokens[t].expires_at
                = full_deadline(1) - 1 + DEFAULT_EXPIRES_HOURS * HOUR
    /\ \E i \in DOMAIN notification_logs :
          /\ notification_logs[i].user_id = 1
          /\ notification_logs[i].type = "status_alert"
          /\ notification_logs[i].status = "sent"
          /\ notification_logs[i].sent_at > full_deadline(1)

\* C38: in every reachable state, for every SOS event, cancelled_at is set
\* exactly when the status is cancelled and sent_at exactly when the status
\* is sent; a triggered event has neither, and no event has both.
C38_TimestampsMatchStatus ==
    \A e \in 1..Len(sos_events) :
        LET ev == sos_events[e]
        IN /\ ev.cancelled_at # NULL <=> ev.status = SOS_STATUS_CANCELLED
           /\ ev.sent_at # NULL <=> ev.status = SOS_STATUS_SENT
           /\ ev.status = SOS_STATUS_TRIGGERED =>
                 ev.cancelled_at = NULL /\ ev.sent_at = NULL
           /\ ~(ev.cancelled_at # NULL /\ ev.sent_at # NULL)

\* C39: over any sequence of create_contact, update_contact,
\* request_consent, process_consent, verify_contact, get_consent_status and
\* check_expired_consents, every contact whose status is approved is
\* verified, and no contact's is_verified goes from true back to false.
C39_ApprovedIsVerified ==
    /\ [](\A c \in DOMAIN contacts :
             contacts[c].status = CONSENT_STATUS_APPROVED =>
                contacts[c].is_verified)
    /\ [][\A c \in DOMAIN contacts \cap DOMAIN contacts' :
             contacts[c].is_verified => contacts'[c].is_verified]_vars

\* a contact that was created, renumbered and asked for consent twice has
\* approved the second request: approved and verified
C39_Witness ==
    /\ reply.op = "process_consent"
    /\ reply.approved
    /\ reply.result = 1
    /\ issued.consent_tokens = 2
    /\ contacts[1].status = CONSENT_STATUS_APPROVED
    /\ contacts[1].is_verified
    /\ contacts[1].priority = 2

\* C40: a request_consent on a contact leaves no consent token issued before
\* it resolving to that contact and takes the contact, approved or not, out
\* of the user's active contacts; a contact becomes approved only by
\* process_consent approving with the token of its latest request; and a
\* fan-out alerts only contacts that are approved when it runs, so between
\* the request and that approval the contact gets no alert.
C40_NewRequestSupersedes ==
    [][/\ \A c \in DOMAIN contacts :
             /\ (/\ contacts'[c].consent_token # contacts[c].consent_token
                 /\ contacts'[c].consent_token # NULL) =>
                   /\ \A t \in 1..issued.consent_tokens :
                         get_contact_by_consent_token(contacts', t, now') # c
                   /\ contacts'[c].status = CONSENT_STATUS_PENDING
                   /\ c \notin {get_active_contacts(contacts',
                                                    contacts'[c].user_id)[i] :
                                  i \in 1..Len(get_active_contacts(contacts',
                                                   contacts'[c].user_id))}
             /\ (/\ contacts'[c].status = CONSENT_STATUS_APPROVED
                 /\ contacts[c].status # CONSENT_STATUS_APPROVED) =>
                   /\ reply'.op = "process_consent"
                   /\ reply'.approved
                   /\ reply'.result = c
                   /\ reply'.token = contacts[c].consent_token
       /\ \A i \in NewNotifications :
             contacts[notification_logs'[i].contact_id].status
                 = CONSENT_STATUS_APPROVED]_vars

\* the approved contact was alerted by a sweep, was then asked for consent
\* twice, and a later sweep has run without alerting it
C40_Witness ==
    /\ reply.op = "check_missed_checkins"
    /\ reply.processed_users = 1
    /\ reply.alerts_sent = 0
    /\ Len(notification_logs) = 1
    /\ notification_logs[1].contact_id = 1
    /\ notification_logs[1].status = "sent"
    /\ contacts[1].status = CONSENT_STATUS_PENDING
    /\ contacts[1].consent_token = 2

\* the reminder sweeps of this run, before the cycle deadline of user u,
\* that sent u a reminder while the hours left answered to the threshold h:
\* each left a session token that expires an hour after the sweep
RemindedFor(u, h) ==
    {t \in DOMAIN session_tokens :
        LET at == session_tokens[t].expires_at - DEFAULT_EXPIRES_HOURS * HOUR
        IN /\ session_tokens[t].user_id = u
           /\ at >= users[u].last_check_in
           /\ at < cycle_deadline(u)
           /\ WithinTolerance((cycle_deadline(u) - at) \div HOUR, h)}

\* C34: with the reminder sweep every 6 hours and a tolerance of 3 hours
\* either way, a user with push enabled and no quiet hours who does not
\* check in is reminded for every configured threshold h with
\* 4 <= h <= 24 * cycle - 4 by at least one sweep before the cycle deadline:
\* once the hours in which the sweep answers to h (more than h - 3 whole
\* hours left) have passed, and they lie in the time beat has been running,
\* a sweep has sent a reminder for h.
C34_NoThresholdSkipped ==
    \A u \in ReminderUsers \cap DOMAIN reminder_settings :
       \A i \in DOMAIN reminder_settings[u].reminder_hours_before :
          LET h == reminder_settings[u].reminder_hours_before[i]
          IN (/\ h >= 4
              /\ h <= 24 * users[u].check_in_cycle - 4
              /\ reminder_settings[u].push_enabled
              /\ ~is_in_quiet_hours(reminder_settings[u], NULL)
              /\ cycle_deadline(u) - (h + 4) * HOUR >= BeatStart - 6 * HOUR
              /\ now > cycle_deadline(u) - (h - 3) * HOUR) =>
                RemindedFor(u, h) # {}

\* the user with the threshold of 164 hours who checked in at the very
\* instant of a sweep, which found 168 hours left and did not remind, has
\* been reminded by the sweep 6 hours later
C34_Witness ==
    /\ users[1].last_check_in = BeatStart
    /\ now > BeatStart + 6 * HOUR
    /\ reminder_settings[1].reminder_hours_before = <<164>>
    /\ RemindedFor(1, 164) # {}
    /\ \A t \in DOMAIN session_tokens :
          session_tokens[t].expires_at # BeatStart + DEFAULT_EXPIRES_HOURS * HOUR

\* C33: every SOS trigger creates one event with status triggered and
\* schedules exactly one delayed job for it (due after the countdown); the
\* job, at its check, ends with result cancelled and no alert when the event
\* has been cancelled by then (and the event stays cancelled), and otherwise
\* goes on to the fan-out to the user's active contacts and then marks the
\* event sent; and under a fair worker every event eventually has left
\* triggered with its job finished, for good.
C33_EveryEventLeavesTriggered ==
    /\ [](Len(sos_jobs) = Len(sos_events))
    /\ [][/\ Len(sos_events') # Len(sos_events) =>
             /\ Len(sos_events') = Len(sos_events) + 1
             /\ Len(sos_jobs') = Len(sos_jobs) + 1
             /\ sos_events'[Len(sos_events')].status = SOS_STATUS_TRIGGERED
             /\ sos_jobs'[Len(sos_jobs')].pc = "scheduled"
             /\ sos_jobs'[Len(sos_jobs')].eta = now + SOS_COUNTDOWN_SECONDS
             /\ SubSeq(sos_jobs', 1, Len(sos_jobs)) = sos_jobs
          /\ \A e \in 1..Len(sos_events) :
                /\ (sos_jobs[e].pc = "scheduled"
                      /\ sos_jobs'[e].pc # "scheduled") =>
                      /\ now >= sos_jobs[e].eta
                      /\ IF sos_events[e].status = SOS_STATUS_TRIGGERED
                         THEN sos_jobs'[e].pc = "active"
                         ELSE /\ sos_jobs'[e].pc = "done"
                              /\ sos_jobs'[e].result = "cancelled"
                              /\ notification_logs' = notification_logs
                /\ (sos_jobs[e].pc = "active" /\ sos_jobs'[e].pc # "active") =>
                      /\ sos_jobs'[e].pc = "fanned"
                      /\ \A i \in NewNotifications :
                            /\ notification_logs'[i].type = "sos_alert"
                            /\ IsActiveContact(
                                  contacts[notification_logs'[i].contact_id],
                                  sos_events[e].user_id)
                /\ (sos_jobs[e].pc = "fanned" /\ sos_jobs'[e].pc # "fanned") =>
                      /\ sos_jobs'[e].pc = "done"
                      /\ sos_jobs'[e].result = "sent"
                      /\ sos_events'[e].status = SOS_STATUS_SENT
                /\ (sos_jobs[e].pc = "done"
                      /\ sos_jobs[e].result = "cancelled") =>
                      sos_events'[e].status = SOS_STATUS_CANCELLED]_vars
    /\ <>[](\A e \in 1..Len(sos_events) :
                /\ sos_events[e].status # SOS_STATUS_TRIGGERED
                /\ sos_jobs[e].pc = "done")

\* an event cancelled during the countdown whose job has then run and
\* reported cancelled, and nothing was sent
C33_Witness ==
    /\ Len(sos_events) >= 1
    /\ sos_events[1].status = SOS_STATUS_CANCELLED
    /\ sos_events[1].cancelled_at < sos_jobs[1].eta
    /\ sos_jobs[1].pc = "done"
    /\ sos_jobs[1].result = "cancelled"
    /\ notification_logs = <<>>

====
